---- MODULE Spec2Model ----
(***************************************************************************)
(* Polymarket arbitrage bot (src/src/Polymarket_Arbitrage): the strategy   *)
(* scan loop, the execution of an arbitrage, the display's unfavorable     *)
(* counter, the replacement queue and its consumer, over local order       *)
(* books.  The asyncio tasks of main() interleave at their await points;   *)
(* code between two awaits of one task is one atomic step.                 *)
(*                                                                         *)
(* Units: prices in thousandths of a dollar (0.480 -> 480), sizes of book  *)
(* levels in shares, trade sizes in hundredths of a share (round(x, 2)),   *)
(* money in 1e-5 dollar (price unit times trade-size unit).                *)
(***************************************************************************)
EXTENDS Integers, Sequences, FiniteSets, TLC

----------------------------------------------------------------------------
(* Bounds of the model *)

\* number of markets discovery returned (all_scored_markets)
PoolSize == 3
\* replacement requests waiting in the (unbounded) asyncio.Queue
MaxQueue == 2

----------------------------------------------------------------------------
(* Program constants *)

\* Config.MAX_MARKETS_TO_TRACK (150 in the repository, scaled down)
MAX_MARKETS_TO_TRACK == 2
\* display.py line 171: a market is replaced once its count is > 10 (scaled down)
EXPENSIVE_LIMIT == 1
\* Config.MIN_PROFIT_SPREAD = 0.005 (MARKET_TYPE "standard")
MIN_PROFIT_SPREAD == 5
\* display.py: total cost >= 1.002 is "Expensive"
EXPENSIVE_TOTAL == 1002
\* Config.MAX_TRADE_SIZE_USDC = 20000.0 dollars
MAX_TRADE_SIZE_USDC == 20000
\* execute_arb: min_trade_size = 2.0 shares, in hundredths of a share
MIN_TRADE_SIZE == 200
\* Config.TOTAL_GAS_COST = 0.05 * 2 dollars, in 1e-5 dollar
TOTAL_GAS_COST == 10000
\* Config.MIN_NET_PROFIT_SPREAD = 0.002 dollars per share
MIN_NET_PROFIT_SPREAD == 2
\* PolyMarket_Binance_Arbitrage config.py; the move threshold in hundredths of a
\* percent, the profit target in percent, times in seconds
DELTA_THRESHOLD_PERCENT == 20
EXPECTED_LAG_MIN == 2
EXIT_HOLD_SECONDS == 30
MIN_EXIT_PROFIT_PCT == 1
COOLDOWN_SECONDS == 300
\* delta_lag_strategy.py line 660: hold_time >= 10
EARLY_EXIT_HOLD == 10

\* the level the feed's messages set or remove, and the level of the REST snapshots
PriceLo == 480
PriceHi == 520
\* a level between the two, and a second size, for the order-book checks
PriceMid == 500
SizeSmall == 3
\* quotes for the sizing and fee checks: a level at price 0, a pair far below
\* 1 (the notional cap binds), a pair just below the threshold, a pair on it
PriceZero == 0
PriceCheap == 350
PriceEdge == 497
PriceOver == 498
\* sizes in shares: below the minimum size, too thin for the gas, one share
\* short of covering it at the edge price, just covering it, past the cap
SizeDust == 1
SizeThin == 2
SizeUnder == 24
SizeEnough == 25
SizeDeep == 50000
\* the lag check: the clock of the check, follower asks one tick apart, and
\* leader moves in hundredths of a percent on and around the two thresholds
CheckClock == 5
AskBase == 500
AskTick == 501
MoveAtThreshold == 20
MoveOverThreshold == 21
MoveSmall == 30
MoveTickPass == 200
MoveOverTickPass == 201
\* the positions: how far the clock runs, and two asks each 1% or more above
\* the one before
MaxClock == 34
AskUp == 505
AskUpAgain == 511
\* the size quoted at a level; size 0 removes the level
SizeFull == 100
\* discovery: how many valid candidates a scan collects (Config.MARKETS_TO_SCAN,
\* 1000 in the code) and how many of them the caller asks for
MARKETS_TO_SCAN == 2
FindLimit == 1
\* the feed task: how many connections it is followed through
MaxSessions == 2

----------------------------------------------------------------------------
(* Markets and tokens: discovery.py market_obj *)

\* a market is named by its rank in the scored list (1 = best score)
Markets == 1 .. PoolSize
token_a(m) == 2 * m - 1
token_b(m) == 2 * m
Tokens == 1 .. 2 * PoolSize
TokensOf(m) == {token_a(m), token_b(m)}
\* market_key = f"{token_a}_{token_b}"
market_key(m) == <<token_a(m), token_b(m)>>
\* replacement_pool = all_scored_markets.copy(), sorted by score
replacement_pool == [i \in 1 .. PoolSize |-> i]
\* get_top_markets(limit = MAX_MARKETS_TO_TRACK * 2): scored_markets[:limit]
TopLimit == IF 2 * MAX_MARKETS_TO_TRACK < PoolSize
            THEN 2 * MAX_MARKETS_TO_TRACK ELSE PoolSize
top_markets == SubSeq(replacement_pool, 1, TopLimit)

Range(s) == {s[i] : i \in DOMAIN s}
SetMin(S) == CHOOSE x \in S : \A y \in S : x <= y
SetMax(S) == CHOOSE x \in S : \A y \in S : x >= y
\* list.remove(x): the first occurrence (the caller checks x is present)
RemoveFirst(s, x) ==
    LET i == SetMin({j \in DOMAIN s : s[j] = x})
    IN  SubSeq(s, 1, i - 1) \o SubSeq(s, i + 1, Len(s))

----------------------------------------------------------------------------
(* models.py LocalOrderBook *)

EmptyLevels == [p \in {} |-> 0]
\* LocalOrderBook.__init__
NewBook == [bids |-> EmptyLevels, asks |-> EmptyLevels, best_bid |-> 0, best_ask |-> 0]

\* a recalculation that takes the wrong end of each side
recalculate_wrong_end(b) ==
    [b EXCEPT !.best_bid = IF DOMAIN b.bids # {} THEN SetMin(DOMAIN b.bids) ELSE 0,
              !.best_ask = IF DOMAIN b.asks # {} THEN SetMax(DOMAIN b.asks) ELSE 0]

\* LocalOrderBook._recalculate_top_of_book
recalculate_top_of_book(b) ==
    [b EXCEPT !.best_bid = IF DOMAIN b.bids # {} THEN SetMax(DOMAIN b.bids) ELSE 0,
              !.best_ask = IF DOMAIN b.asks # {} THEN SetMin(DOMAIN b.asks) ELSE 0]

\* an update that stores the level whatever its size
StoreAnySize(levels, price, size) ==
    [p \in DOMAIN levels \cup {price} |-> IF p = price THEN size ELSE levels[p]]

\* an update that adds the size to the size resting at the price
AddToLevel(levels, price, size) ==
    IF size = 0
    THEN [p \in DOMAIN levels \ {price} |-> levels[p]]
    ELSE [p \in DOMAIN levels \cup {price} |->
             IF p # price THEN levels[p]
             ELSE IF p \in DOMAIN levels THEN levels[p] + size ELSE size]

\* LocalOrderBook.update, lines 33-37: a size of 0 deletes the level, any other
\* size sets it
SetLevel(levels, price, size) ==
    IF size = 0
    THEN [p \in DOMAIN levels \ {price} |-> levels[p]]
    ELSE [p \in DOMAIN levels \cup {price} |-> IF p = price THEN size ELSE levels[p]]

\* LocalOrderBook.update(side, price, size)
book_update(b, side, price, size) ==
    recalculate_top_of_book(
        IF side = "buy"
        THEN [b EXCEPT !.bids = SetLevel(b.bids, price, size)]
        ELSE [b EXCEPT !.asks = SetLevel(b.asks, price, size)])

\* LocalOrderBook.get_best_ask: (None, 0) when there is no ask level
get_best_ask(b) ==
    IF DOMAIN b.asks = {}
    THEN [none |-> TRUE, price |-> 0, size |-> 0]
    ELSE [none |-> FALSE, price |-> b.best_ask, size |-> b.asks[b.best_ask]]

\* LocalOrderBook.get_best_bid: (None, 0) when there is no bid level
get_best_bid(b) ==
    IF DOMAIN b.bids = {}
    THEN [none |-> TRUE, price |-> 0, size |-> 0]
    ELSE [none |-> FALSE, price |-> b.best_bid, size |-> b.bids[b.best_bid]]

----------------------------------------------------------------------------
VARIABLES
    books,                  \* main: books, token id -> LocalOrderBook
    market_pairs,           \* main: market_pairs, the watch set (a list)
    monitored_token_ids,    \* main: monitored_token_ids
    replaced_markets,       \* main: replaced_markets (market keys)
    token_ids_to_subscribe, \* main: token_ids_to_subscribe = stream.tokens_to_sub
    next_replacement_index, \* main: next_replacement_index (0-based)
    replacement_queue,      \* main: replacement_queue
    ws_tokens,              \* MarketStream.start: tokens, sent in the subscribe message
    executed_markets,       \* ArbStrategy._executed_markets
    is_executing,           \* ArbStrategy.is_executing
    expensive_counts,       \* MarketDisplay.expensive_counts
    strat,                  \* the strategy task: where run_loop / execute_arb is suspended
    repl,                   \* the consumer task: where replace_market_async stands
    order_log,              \* history: per market, the pairs of orders submitted
    retired,                \* history: the markets that have left the watch set
    dedup_hit,              \* history: a scan met a mispriced market already executed
    arb_ledger,             \* per market, the rows written to Config.ARB_CSV_FILE
    rejections,             \* history: per market, the early return execute_arb took
    lag,                    \* DeltaLagStrategy: a market, a leader move, the outcome chosen
    trader,                 \* DeltaLagStrategy: clock, follower prices, positions, exit timers
    finder,                 \* MarketDiscovery: a catalog entry and what get_top_markets made of it
    conn,                   \* MarketStream.start: the connection loop of the feed task
    tally,                  \* history: per market, its run of "Expensive" rows and the last request
    engine,                 \* ExecutionEngine: the mode, the place_order calls made and the order ledger
    scanned                 \* history: the markets the current pass of run_loop has evaluated,
                            \* and the markets that have been watched since the pass began

vars == <<books, market_pairs, monitored_token_ids, replaced_markets,
          token_ids_to_subscribe, next_replacement_index, replacement_queue,
          ws_tokens, executed_markets, is_executing,
          expensive_counts, strat, repl, order_log, retired, dedup_hit,
          arb_ledger, rejections, lag, trader, finder, conn, tally, engine, scanned>>

----------------------------------------------------------------------------
(* main(): start-up, lines 190-412 *)

\* what client.get_order_book returned for a market's two tokens at start-up
StartupKinds == {"both", "a_only"}
\* the sides of a REST snapshot that have resting asks (one level per token)
SnapshotHasAsk(kind, side) ==
    \/ kind = "both"
    \/ kind = "a_only" /\ side = "a"
    \/ kind = "b_only" /\ side = "b"
\* applying a fetched snapshot to the local book: book.update("sell", price, size)
\* for every level with price > 0 and size > 0; the local book is not cleared first
ApplySnapshot(b, kind, side) ==
    IF SnapshotHasAsk(kind, side) THEN book_update(b, "sell", PriceHi, SizeFull) ELSE b

\* lines 211-262: books for all tokens of the top markets, filled from REST
StartupBooks(snap) ==
    [t \in UNION {TokensOf(top_markets[i]) : i \in DOMAIN top_markets} |->
        LET m == (t + 1) \div 2
        IN  ApplySnapshot(NewBook, snap[m], IF t = token_a(m) THEN "a" ELSE "b")]

\* lines 272-292: a market needs a best ask on both tokens
HasBothAsks(bk, m) ==
    /\ TokensOf(m) \subseteq DOMAIN bk
    /\ ~get_best_ask(bk[token_a(m)]).none
    /\ ~get_best_ask(bk[token_b(m)]).none

RECURSIVE FilterValid(_, _)
FilterValid(bk, ms) ==
    IF ms = <<>> THEN <<>>
    ELSE (IF HasBothAsks(bk, Head(ms)) THEN <<Head(ms)>> ELSE <<>>)
         \o FilterValid(bk, Tail(ms))

\* lines 404-410: the subscription list, two tokens per market in list order
RECURSIVE TokenList(_)
TokenList(ms) ==
    IF ms = <<>> THEN <<>>
    ELSE <<token_a(Head(ms)), token_b(Head(ms))>> \o TokenList(Tail(ms))

\* DeltaLagStrategy.__init__: no recorded price, no position, no timer
PositionIds == {"m", "m_MARKET"}
NoPosition == [open |-> FALSE, entry_time |-> 0, entry_price |-> 0]
NoClose == [id |-> "none", hold |-> 0, held_by |-> 0, timer_for |-> 0]
NoSeen == [checked |-> FALSE]
NoTrader ==
    [now |-> 0, ask |-> 0, spread_ok |-> TRUE,
     has_last |-> FALSE, last_price |-> 0, last_ts |-> 0,
     positions |-> [i \in PositionIds |-> NoPosition], timers |-> {},
     last_exit |-> -1, closed |-> NoClose, outcome |-> "none", seen |-> NoSeen]
\* MarketDiscovery and MarketStream before they run
NoFinder == [pc |-> "idle"]
NoConn == [pc |-> "idle"]
\* no table has been drawn
NoTally == [m \in Markets |-> [bad |-> 0, asked |-> FALSE]]
\* no pass of the scan loop has begun
NoScan == [seen |-> {}, whole |-> {}]
\* no execution engine has been built
NoEngine == [mode |-> "none", calls |-> <<>>, rows |-> 0, venue_calls |-> 0]

\* no market has been handed to the delta-lag strategy
NoLag == [title |-> {}, move |-> "none", price_a |-> 0, price_b |-> 0, bought |-> <<>>]
StratSleep == [pc |-> "sleep", market |-> 0, idx |-> 0, filled |-> FALSE, orders |-> <<>>]
ReplIdle == [pc |-> "idle", old |-> 0, new |-> 0, reason |-> "none", fetch |-> "none",
             outcome |-> "none", len_before |-> 0, was_watched |-> FALSE]

Init ==
    \E snap \in [Range(top_markets) -> StartupKinds] :
        LET bk == StartupBooks(snap)
            valid == FilterValid(bk, top_markets)
        IN  \* with fewer valid markets main() does not reach its tasks (line 324)
            /\ Len(valid) >= MAX_MARKETS_TO_TRACK
            /\ books = bk
            /\ market_pairs = SubSeq(valid, 1, MAX_MARKETS_TO_TRACK)
            /\ token_ids_to_subscribe = TokenList(market_pairs)
            /\ monitored_token_ids = Range(token_ids_to_subscribe)
            /\ ws_tokens = token_ids_to_subscribe
            /\ replaced_markets = {}
            /\ next_replacement_index = MAX_MARKETS_TO_TRACK
            /\ replacement_queue = <<>>
            /\ executed_markets = {}
            /\ is_executing = FALSE
            /\ expensive_counts = [m \in Markets |-> 0]
            /\ strat = StratSleep
            /\ repl = ReplIdle
            /\ order_log = [m \in Markets |-> 0]
            /\ retired = {}
            /\ dedup_hit = FALSE
            /\ arb_ledger = [m \in Markets |-> 0]
            /\ rejections = [m \in Markets |-> "none"]
            /\ lag = NoLag
            /\ trader = NoTrader
            /\ finder = NoFinder
            /\ conn = NoConn
            /\ tally = NoTally
            /\ engine = NoEngine
            /\ scanned = NoScan

\* history: the markets that leave the watch set in this step
Leavers == retired \cup (Range(market_pairs) \ Range(market_pairs'))

----------------------------------------------------------------------------
(* display.py MarketDisplay.display_table *)

TotalCost(bk, m) ==
    get_best_ask(bk[token_a(m)]).price + get_best_ask(bk[token_b(m)]).price

\* lines 153-160: status "Expensive"
IsExpensive(bk, m) == HasBothAsks(bk, m) /\ TotalCost(bk, m) >= EXPENSIVE_TOTAL

\* lines 111, 144, 196: the sort key of a row (-999 for a row without data)
spread_value(bk, m) ==
    IF HasBothAsks(bk, m) THEN 1000 - TotalCost(bk, m) ELSE 0 - 999000

\* lines 162-168: the count of a market after its row
CountAfterRow(bk, counts, m) ==
    IF ~HasBothAsks(bk, m) THEN counts[m]
    ELSE IF IsExpensive(bk, m) THEN counts[m] + 1 ELSE 0

\* lines 98-206: the rows in list order; counts are updated row by row
RECURSIVE CountsAfterRows(_, _, _)
CountsAfterRows(bk, counts, ms) ==
    IF ms = <<>> THEN counts
    ELSE CountsAfterRows(bk, [counts EXCEPT ![Head(ms)] = CountAfterRow(bk, counts, Head(ms))],
                         Tail(ms))

\* lines 170-174: the rows that set _needs_replacement (count > limit at that row)
RECURSIVE FlaggedRows(_, _, _)
FlaggedRows(bk, counts, ms) ==
    IF ms = <<>> THEN {}
    ELSE LET c == CountAfterRow(bk, counts, Head(ms))
         IN  (IF HasBothAsks(bk, Head(ms)) /\ c > EXPENSIVE_LIMIT THEN {Head(ms)} ELSE {})
             \cup FlaggedRows(bk, [counts EXCEPT ![Head(ms)] = c], Tail(ms))

\* line 209: market_data.sort(key=spread_value, reverse=True), a stable sort
RECURSIVE InsertRow(_, _, _)
InsertRow(bk, sorted, m) ==
    IF sorted = <<>> THEN <<m>>
    ELSE IF spread_value(bk, Head(sorted)) >= spread_value(bk, m)
         THEN <<Head(sorted)>> \o InsertRow(bk, Tail(sorted), m)
         ELSE <<m>> \o sorted
RECURSIVE SortRows(_, _, _)
SortRows(bk, sorted, ms) ==
    IF ms = <<>> THEN sorted
    ELSE SortRows(bk, InsertRow(bk, sorted, Head(ms)), Tail(ms))

\* lines 212-216: markets_to_replace, in the order of the sorted rows
RECURSIVE SelectRows(_, _)
SelectRows(rows, flagged) ==
    IF rows = <<>> THEN <<>>
    ELSE (IF Head(rows) \in flagged THEN <<Head(rows)>> ELSE <<>>)
         \o SelectRows(Tail(rows), flagged)
markets_to_replace(bk, counts, ms) ==
    SelectRows(SortRows(bk, <<>>, ms), FlaggedRows(bk, counts, ms))

\* main.py replace_market_sync: replacement_queue.put_nowait(old_market)
RECURSIVE Requests(_, _)
Requests(ms, reason) ==
    IF ms = <<>> THEN <<>>
    ELSE <<[market |-> Head(ms), reason |-> reason]>> \o Requests(Tail(ms), reason)

\* lines 238-247: the callback for each market to replace, then its count is deleted
display_table(bk) ==
    LET todo == markets_to_replace(bk, expensive_counts, market_pairs)
        counted == CountsAfterRows(bk, expensive_counts, market_pairs)
        gone == Range(todo)
    IN  /\ Len(replacement_queue) + Len(todo) <= MaxQueue
        /\ replacement_queue' = replacement_queue \o Requests(todo, "unfavorable")
        /\ expensive_counts' = [m \in Markets |-> IF m \in gone THEN 0 ELSE counted[m]]

\* main.py periodic_refresh: display.display_table() every 2 seconds
PeriodicRefresh ==
    /\ repl.pc = "idle"
    /\ display_table(books)
    /\ UNCHANGED <<books, market_pairs, monitored_token_ids, replaced_markets,
                   token_ids_to_subscribe, next_replacement_index, ws_tokens,
                   executed_markets, is_executing, strat, repl,
                   order_log, retired, dedup_hit,
                   arb_ledger, rejections, lag, trader, finder, conn, tally, engine, scanned>>

----------------------------------------------------------------------------
(* market_stream.py MarketStream.start (lines 96-109) and _process_update *)

\* the messages the venue sends for a subscribed market: a list of items, each
\* one ask level of one token
Item(t, price, size) == [token |-> t, price |-> price, size |-> size]
FeedMessages(m) ==
    { <<Item(token_a(m), PriceLo, SizeFull), Item(token_b(m), PriceLo, SizeFull)>>,
      <<Item(token_a(m), PriceLo, 0), Item(token_b(m), PriceLo, 0)>> }

\* _process_update for the first n items: a token without a book is skipped
RECURSIVE ProcessItems(_, _, _)
ProcessItems(bk, items, n) ==
    IF n = 0 THEN bk
    ELSE LET before == ProcessItems(bk, items, n - 1)
             it == items[n]
         IN  IF it.token \in DOMAIN before
             THEN [before EXCEPT ![it.token] = book_update(@, "sell", it.price, it.size)]
             ELSE before

\* _process_update, lines 171-183: book.update for every entry of "bids", then
\* for every entry of "asks"; the book is not cleared
RECURSIVE ApplyLevels(_, _, _)
ApplyLevels(b, side, levels) ==
    IF levels = <<>> THEN b
    ELSE ApplyLevels(book_update(b, side, Head(levels).price, Head(levels).size),
                     side, Tail(levels))

\* a _process_update that opens a book for a token it does not know
process_update_creating(bk, data) ==
    LET known == [t \in DOMAIN bk \cup {data.asset_id} |->
                     IF t \in DOMAIN bk THEN bk[t] ELSE NewBook]
    IN  [known EXCEPT ![data.asset_id] =
             ApplyLevels(ApplyLevels(@, "buy", data.bids), "sell", data.asks)]

\* _process_update, lines 135-183, for a message with the levels of both sides:
\* a token that has no book is skipped (lines 167-169)
process_update(bk, data) ==
    IF data.asset_id \notin DOMAIN bk THEN bk
    ELSE [bk EXCEPT ![data.asset_id] =
             ApplyLevels(ApplyLevels(@, "buy", data.bids), "sell", data.asks)]

\* shown_at: the item after which update_callback gets through both throttles
\* (0.5 s in the stream, 0.3 s in the display) and redraws the table; 0 for none
FeedMessage(items, shown_at) ==
    /\ repl.pc = "idle"
    /\ \A i \in DOMAIN items : items[i].token \in Range(ws_tokens)
    /\ books' = ProcessItems(books, items, Len(items))
    /\ IF shown_at > 0
       THEN display_table(ProcessItems(books, items, shown_at))
       ELSE UNCHANGED <<replacement_queue, expensive_counts>>
    /\ UNCHANGED <<market_pairs, monitored_token_ids, replaced_markets,
                   token_ids_to_subscribe, next_replacement_index, ws_tokens,
                   executed_markets, is_executing, strat, repl,
                   order_log, retired, dedup_hit,
                   arb_ledger, rejections, lag, trader, finder, conn, tally, engine, scanned>>

\* MarketStream.start, lines 43-67: the connection is lost and the while loop
\* connects again; the subscribe payload is the local list `tokens`, built once
\* at line 27 from tokens_to_sub before the loop
Reconnect ==
    /\ repl.pc = "idle"
    /\ ws_tokens' = ws_tokens
    /\ UNCHANGED <<books, market_pairs, monitored_token_ids, replaced_markets,
                   token_ids_to_subscribe, next_replacement_index, replacement_queue,
                   executed_markets, is_executing, expensive_counts, strat, repl,
                   order_log, retired, dedup_hit, arb_ledger, rejections, lag, trader, finder, conn, tally, engine, scanned>>

----------------------------------------------------------------------------
(* strategy.py ArbStrategy *)

\* a scan that also takes a pair whose cost is on the threshold
MispricedAtThreshold(bk, m) ==
    /\ TokensOf(m) \subseteq DOMAIN bk
    /\ LET a == get_best_ask(bk[token_a(m)])
           b == get_best_ask(bk[token_b(m)])
       IN  /\ ~(a.none \/ a.price = 0)
           /\ ~(b.none \/ b.price = 0)
           /\ a.price + b.price <= 1000 - MIN_PROFIT_SPREAD

\* lines 76-91: both books have a best ask and total_cost < threshold
Mispriced(bk, m) ==
    /\ TokensOf(m) \subseteq DOMAIN bk
    /\ LET a == get_best_ask(bk[token_a(m)])
           b == get_best_ask(bk[token_b(m)])
       IN  /\ ~(a.none \/ a.price = 0)
           /\ ~(b.none \/ b.price = 0)
           /\ a.price + b.price < 1000 - MIN_PROFIT_SPREAD

\* lines 64-94: scan_market reaches execute_arb for this market
ArbFound(bk, exe, m) == market_key(m) \notin exe /\ Mispriced(bk, m)

\* round(n / d) as Python rounds (half to even), for n >= 0 and d > 0
RoundDiv(n, d) ==
    LET q == n \div d
        r == n % d
    IN  IF 2 * r < d THEN q
        ELSE IF 2 * r > d THEN q + 1
        ELSE IF q % 2 = 0 THEN q ELSE q + 1

\* lines 109-124: trade_size, in hundredths of a share
trade_size(p_a, s_a, p_b, s_b) ==
    LET total_cost == p_a + p_b
        available_liq == 100 * (IF s_a < s_b THEN s_a ELSE s_b)
        max_cap_size == RoundDiv(MAX_TRADE_SIZE_USDC * 100000, total_cost)
        size == IF available_liq < max_cap_size THEN available_liq ELSE max_cap_size
    IN  IF size > 0 THEN size ELSE 0

\* a net profit that leaves the gas out
gross_profit_only(p_a, p_b, size) == (1000 - (p_a + p_b)) * size

\* lines 136-158: net_profit in 1e-5 dollar; market_type is "standard" (no
\* market_obj carries a market_type), so taker_fee = 0; gas is paid
net_profit(p_a, p_b, size) ==
    (1000 - (p_a + p_b)) * size - TOTAL_GAS_COST

\* lines 126-172: neither early return is taken, the orders are placed
Accepted(bk, m) ==
    LET a == get_best_ask(bk[token_a(m)])
        b == get_best_ask(bk[token_b(m)])
        size == trade_size(a.price, a.size, b.price, b.size)
    IN  /\ size >= MIN_TRADE_SIZE
        /\ net_profit(a.price, b.price, size) >= MIN_NET_PROFIT_SPREAD * size

\* lines 126-133 and 164-172: which early return is taken, "none" for neither
early_return(bk, m) ==
    LET a == get_best_ask(bk[token_a(m)])
        b == get_best_ask(bk[token_b(m)])
        size == trade_size(a.price, a.size, b.price, b.size)
    IN  IF size < MIN_TRADE_SIZE THEN "size"
        ELSE IF net_profit(a.price, b.price, size) < MIN_NET_PROFIT_SPREAD * size
             THEN "net" ELSE "none"

OneSidedOrders(m, p_a, p_b, size) ==
    <<[token |-> token_a(m), side |-> "BUY", price |-> p_a, size |-> size]>>
\* lines 181-182: the two place_order calls
place_orders(m, p_a, p_b, size) ==
    <<[token |-> token_a(m), side |-> "BUY", price |-> p_a, size |-> size],
      [token |-> token_b(m), side |-> "BUY", price |-> p_b, size |-> size]>>

\* the orders execute_arb places for a market it accepts
OrdersFor(bk, m) ==
    LET a == get_best_ask(bk[token_a(m)])
        b == get_best_ask(bk[token_b(m)])
    IN  place_orders(m, a.price, b.price, trade_size(a.price, a.size, b.price, b.size))

MarkNever(exe, m) == exe
\* line 106: self._executed_markets.add(market_key), before the sizing
MarkExecuted(exe, m) == exe \cup {market_key(m)}

\* lines 100-105: the guard of execute_arb itself
GuardPasses(exe, m) == market_key(m) \notin exe

\* run_loop, lines 60-61: the first market at list position >= i whose scan
\* places orders; 0 when the pass ends without one.  A market whose execute_arb
\* returns early (lines 126-133, 164-172) has its key added and discarded again
\* with no await in between, and the pass goes on.
NextExec(bk, mp, exe, i) ==
    LET hits == {j \in DOMAIN mp : /\ j >= i
                                   /\ ArbFound(bk, exe, mp[j])
                                   /\ GuardPasses(exe, mp[j])
                                   /\ Accepted(bk, mp[j])}
    IN  IF hits = {} THEN 0 ELSE SetMin(hits)

\* history: this part of the pass met a mispriced market that line 67 skipped
MetExecuted(i, j) ==
    \E k \in DOMAIN market_pairs :
        /\ k >= i /\ (j = 0 \/ k < j)
        /\ market_key(market_pairs[k]) \in executed_markets
        /\ Mispriced(books, market_pairs[k])

\* history: the markets of this part of the pass whose execute_arb returned early
ReturnedEarly(i, j) ==
    {market_pairs[k] : k \in {x \in DOMAIN market_pairs :
        /\ x >= i /\ (j = 0 \/ x < j)
        /\ ArbFound(books, executed_markets, market_pairs[x])
        /\ GuardPasses(executed_markets, market_pairs[x])
        /\ ~Accepted(books, market_pairs[x])}}

\* the pass from list position i on, up to the next await
ScanFrom(i) ==
    LET j == NextExec(books, market_pairs, executed_markets, i)
        called == {market_pairs[k] : k \in i .. (IF j = 0 THEN Len(market_pairs) ELSE j)}
    IN  /\ scanned' = IF i = 1
                       THEN [seen |-> called, whole |-> Range(market_pairs)]
                       ELSE [scanned EXCEPT !.seen = @ \cup called]
        /\ dedup_hit' = (dedup_hit \/ MetExecuted(i, j))
        /\ rejections' = [m \in Markets |->
               IF m \in ReturnedEarly(i, j) THEN early_return(books, m)
               ELSE IF j # 0 /\ m = market_pairs[j] THEN "none"
               ELSE rejections[m]]
        /\ IF j = 0
           THEN \* the for loop ends: asyncio.sleep(scan_interval)
                /\ strat' = StratSleep
                /\ is_executing' = FALSE
                /\ UNCHANGED <<executed_markets, order_log>>
           ELSE \* lines 181-185: both place_order coroutines are gathered
                /\ strat' = [pc |-> "gather", market |-> market_pairs[j], idx |-> j,
                             filled |-> FALSE,
                             orders |-> OrdersFor(books, market_pairs[j])]
                /\ is_executing' = TRUE
                /\ executed_markets' = MarkExecuted(executed_markets, market_pairs[j])
                /\ order_log' = [order_log EXCEPT ![market_pairs[j]] = @ + 1]

\* run_loop wakes from its sleep and scans the list from the start
ScanPass ==
    /\ repl.pc = "idle"
    /\ strat.pc = "sleep"
    /\ ~is_executing
    /\ ScanFrom(1)
    /\ UNCHANGED <<books, market_pairs, monitored_token_ids, replaced_markets,
                   token_ids_to_subscribe, next_replacement_index, replacement_queue,
                   ws_tokens, expensive_counts, repl, retired, arb_ledger, lag, trader, finder, conn, tally, engine>>

\* execution.py place_order: TRUE for an order id, FALSE for None (the venue
\* rejected the order, or the call raised); with Config.SIMULATION_MODE set,
\* _simulate_trade always gives an id
OrderResults == BOOLEAN

RemoveIfPresent(s, x) == IF x \in Range(s) THEN RemoveFirst(s, x) ELSE s

\* a removal after a trade that leaves the subscription list as it is
remove_market_keeping_subscription(m) ==
    /\ market_pairs' = RemoveIfPresent(market_pairs, m)
    /\ monitored_token_ids' = monitored_token_ids \ TokensOf(m)
    /\ token_ids_to_subscribe' = token_ids_to_subscribe
    /\ replacement_queue' = Append(replacement_queue, [market |-> m, reason |-> "trade"])

\* main.py remove_market_after_arbitrage, lines 569-594
remove_market_after_arbitrage(m) ==
    /\ market_pairs' = RemoveIfPresent(market_pairs, m)
    /\ monitored_token_ids' = monitored_token_ids \ TokensOf(m)
    /\ token_ids_to_subscribe' =
           RemoveIfPresent(RemoveIfPresent(token_ids_to_subscribe, token_a(m)), token_b(m))
    /\ replacement_queue' = Append(replacement_queue, [market |-> m, reason |-> "trade"])

\* lines 185-215: gather returns; the ledger row (status "FILLED" only when both
\* ids are there); the removal callback, whatever the ids are; sleep(0.5)
OrdersDone(ok_a, ok_b) ==
    /\ repl.pc = "idle"
    /\ strat.pc = "gather"
    /\ ok_a \in OrderResults /\ ok_b \in OrderResults
    /\ Len(replacement_queue) < MaxQueue
    /\ remove_market_after_arbitrage(strat.market)
    /\ strat' = [strat EXCEPT !.pc = "cooldown", !.filled = ok_a /\ ok_b]
    /\ arb_ledger' = [arb_ledger EXCEPT ![strat.market] = @ + 1]
    /\ retired' = Leavers
    /\ UNCHANGED <<books, replaced_markets, next_replacement_index, ws_tokens,
                   executed_markets, is_executing, expensive_counts,
                   repl, order_log, dedup_hit, rejections, lag, trader, finder, conn, tally, engine>>
    /\ scanned' = [scanned EXCEPT !.whole = @ \cap Range(market_pairs')]

\* lines 215-216, then the for loop of run_loop goes on behind the position
\* of the market it executed
ExecFinish ==
    /\ repl.pc = "idle"
    /\ strat.pc = "cooldown"
    /\ ScanFrom(strat.idx + 1)
    /\ UNCHANGED <<books, market_pairs, monitored_token_ids, replaced_markets,
                   token_ids_to_subscribe, next_replacement_index, replacement_queue,
                   ws_tokens, expensive_counts, repl, retired, arb_ledger, lag, trader, finder, conn, tally, engine>>

----------------------------------------------------------------------------
(* main.py replace_market_async (lines 427-540) and process_replacements *)

\* what the two client.get_order_book calls give for a candidate: an exception,
\* or the sides that have resting asks
FetchKinds == {"raise", "none", "b_only", "both"}

\* lines 454-464: the three skip checks
Skipped(cand, old, mon, rep) ==
    \/ TokensOf(cand) \cap mon # {}
    \/ market_key(cand) \in rep
    \/ market_key(cand) = market_key(old)

\* lines 468-476: a book is created for a candidate token that has none
WithBooks(bk, cand) ==
    [t \in DOMAIN bk \cup TokensOf(cand) |-> IF t \in DOMAIN bk THEN bk[t] ELSE NewBook]

\* a prefetch that also resets the book of every other token
PrefetchedResetting(bk, cand, fetch) ==
    LET bk1 == [t \in DOMAIN bk \cup TokensOf(cand) |-> NewBook]
    IN  IF fetch = "raise" THEN bk1
        ELSE [bk1 EXCEPT ![token_a(cand)] = ApplySnapshot(@, fetch, "a"),
                         ![token_b(cand)] = ApplySnapshot(@, fetch, "b")]

\* lines 479-497: both snapshots are fetched, then their asks are applied on top
\* of whatever the local books already hold
Prefetched(bk, cand, fetch) ==
    LET bk1 == WithBooks(bk, cand)
    IN  IF fetch = "raise" THEN bk1
        ELSE [bk1 EXCEPT ![token_a(cand)] = ApplySnapshot(@, fetch, "a"),
                         ![token_b(cand)] = ApplySnapshot(@, fetch, "b")]

\* lines 499-508: p_a and p_b are read from the local books; has_data is not used
Validated(bk, cand, fetch) == fetch # "raise" /\ HasBothAsks(bk, cand)

\* lines 445-508: the while loop from cursor idx on; fetchf gives for every
\* candidate what a fetch of it returns
RECURSIVE Search(_, _, _, _, _, _)
Search(idx, bk, old, mon, rep, fetchf) ==
    IF idx >= Len(replacement_pool)
    THEN [idx |-> idx, bk |-> bk, new |-> 0, fetch |-> "none"]
    ELSE LET cand == replacement_pool[idx + 1]
         IN  IF Skipped(cand, old, mon, rep)
             THEN Search(idx + 1, bk, old, mon, rep, fetchf)
             ELSE LET bk2 == Prefetched(bk, cand, fetchf[cand])
                  IN  IF Validated(bk2, cand, fetchf[cand])
                      THEN [idx |-> idx + 1, bk |-> bk2, new |-> cand,
                            fetch |-> fetchf[cand]]
                      ELSE Search(idx + 1, bk2, old, mon, rep, fetchf)

\* the candidates the cursor has not passed
Untried == {replacement_pool[i] : i \in (next_replacement_index + 1) .. Len(replacement_pool)}

DropOriginal(mp, old) == IF old \in Range(mp) THEN RemoveFirst(mp, old) ELSE mp
\* lines 537-540: "Keeping original market": market_pairs is not touched
KeepOriginal(mp, old) == mp

\* process_replacements gets a request; replace_market_async runs up to the end
\* of its search (it has no await: the other tasks do not run before it returns)
ReplSearch(fetchf) ==
    /\ repl.pc = "idle"
    /\ replacement_queue # <<>>
    /\ LET req == Head(replacement_queue)
           old == req.market
           marked == replaced_markets \cup {market_key(old)}
           r == Search(next_replacement_index, books, old, monitored_token_ids,
                       marked, fetchf)
           call == [ReplIdle EXCEPT !.old = old, !.reason = req.reason,
                                    !.len_before = Len(market_pairs),
                                    !.was_watched = (old \in Range(market_pairs))]
       IN  /\ replacement_queue' = Tail(replacement_queue)
           /\ books' = r.bk
           /\ next_replacement_index' = r.idx
           /\ IF r.new = 0
              THEN /\ replaced_markets' = marked \ {market_key(old)}
                   /\ market_pairs' = KeepOriginal(market_pairs, old)
                   /\ repl' = [call EXCEPT !.pc = "returned", !.outcome = "no_candidate"]
              ELSE /\ replaced_markets' = marked
                   /\ market_pairs' = market_pairs
                   /\ repl' = [call EXCEPT !.pc = "found", !.new = r.new,
                                           !.fetch = r.fetch]
    /\ retired' = Leavers
    /\ UNCHANGED <<monitored_token_ids, token_ids_to_subscribe, ws_tokens,
                   executed_markets, is_executing, expensive_counts,
                   strat, order_log, dedup_hit,
                   arb_ledger, rejections, lag, trader, finder, conn, tally, engine, scanned>>

KeepOldMarket(mp, old) == mp
\* line 512: market_pairs.remove(old_market)
RemoveOldMarket(mp, old) == RemoveFirst(mp, old)

\* lines 512-514; list.remove raises ValueError when the market is not in the
\* list, and process_replacements (lines 607-610) logs it and goes on
ReplRemoveOld ==
    /\ repl.pc = "found"
    /\ IF repl.old \in Range(market_pairs)
       THEN /\ market_pairs' = RemoveOldMarket(market_pairs, repl.old)
            /\ monitored_token_ids' = monitored_token_ids \ TokensOf(repl.old)
            /\ repl' = [repl EXCEPT !.pc = "removed"]
       ELSE /\ repl' = [repl EXCEPT !.pc = "returned", !.outcome = "raised"]
            /\ UNCHANGED <<market_pairs, monitored_token_ids>>
    /\ retired' = Leavers
    /\ UNCHANGED <<books, replaced_markets, token_ids_to_subscribe,
                   next_replacement_index, replacement_queue, ws_tokens,
                   executed_markets, is_executing, expensive_counts,
                   strat, order_log, dedup_hit,
                   arb_ledger, rejections, lag, trader, finder, conn, tally, engine>>
    /\ scanned' = [scanned EXCEPT !.whole = @ \cap Range(market_pairs')]

\* lines 517-521
ReplAddNew ==
    /\ repl.pc = "removed"
    /\ market_pairs' = Append(market_pairs, repl.new)
    /\ monitored_token_ids' = monitored_token_ids \cup TokensOf(repl.new)
    /\ repl' = [repl EXCEPT !.pc = "added"]
    /\ UNCHANGED <<books, replaced_markets, token_ids_to_subscribe,
                   next_replacement_index, replacement_queue, ws_tokens,
                   executed_markets, is_executing, expensive_counts,
                   strat, order_log, retired, dedup_hit,
                   arb_ledger, rejections, lag, trader, finder, conn, tally, engine, scanned>>

SubscribeNewFirst(subs, old, new) == subs \o <<token_a(new), token_b(new)>>
\* lines 524-525: token_ids_to_subscribe.remove for the old market's two tokens
UnsubscribeOld(subs, old, new) == RemoveFirst(RemoveFirst(subs, token_a(old)), token_b(old))

\* lines 524-525; list.remove raises ValueError for a token that is not listed
ReplUnsubOld ==
    /\ repl.pc = "added"
    /\ IF TokensOf(repl.old) \subseteq Range(token_ids_to_subscribe)
       THEN /\ token_ids_to_subscribe' =
                   UnsubscribeOld(token_ids_to_subscribe, repl.old, repl.new)
            /\ repl' = [repl EXCEPT !.pc = "unsubscribed"]
       ELSE /\ token_ids_to_subscribe' =
                   RemoveIfPresent(token_ids_to_subscribe, token_a(repl.old))
            /\ repl' = [repl EXCEPT !.pc = "returned", !.outcome = "raised"]
    /\ UNCHANGED <<books, market_pairs, monitored_token_ids, replaced_markets,
                   next_replacement_index, replacement_queue, ws_tokens,
                   executed_markets, is_executing, expensive_counts,
                   strat, order_log, retired, dedup_hit,
                   arb_ledger, rejections, lag, trader, finder, conn, tally, engine, scanned>>

\* lines 526-536; stream.tokens_to_sub is only read by MarketStream.start
ReplSubNew ==
    /\ repl.pc = "unsubscribed"
    /\ token_ids_to_subscribe' =
           token_ids_to_subscribe \o <<token_a(repl.new), token_b(repl.new)>>
    /\ repl' = [repl EXCEPT !.pc = "returned", !.outcome = "replaced"]
    /\ UNCHANGED <<books, market_pairs, monitored_token_ids, replaced_markets,
                   next_replacement_index, replacement_queue, ws_tokens,
                   executed_markets, is_executing, expensive_counts,
                   strat, order_log, retired, dedup_hit,
                   arb_ledger, rejections, lag, trader, finder, conn, tally, engine, scanned>>

\* process_replacements, lines 604-611: back to replacement_queue.get()
ReplReturn ==
    /\ repl.pc = "returned"
    /\ repl' = ReplIdle
    /\ UNCHANGED <<books, market_pairs, monitored_token_ids, replaced_markets,
                   token_ids_to_subscribe, next_replacement_index, replacement_queue,
                   ws_tokens, executed_markets, is_executing,
                   expensive_counts, strat, order_log, retired, dedup_hit,
                   arb_ledger, rejections, lag, trader, finder, conn, tally, engine, scanned>>

----------------------------------------------------------------------------
(* main(): the tasks gathered at lines 622-627 *)

Next ==
    \/ \E m \in Markets : \E items \in FeedMessages(m) : \E shown_at \in 0 .. Len(items) :
           FeedMessage(items, shown_at)
    \/ Reconnect
    \/ PeriodicRefresh
    \/ ScanPass
    \/ \E ok_a \in BOOLEAN, ok_b \in BOOLEAN : OrdersDone(ok_a, ok_b)
    \/ ExecFinish
    \/ \E fetchf \in [Untried -> FetchKinds] : ReplSearch(fetchf)
    \/ ReplRemoveOld
    \/ ReplAddNew
    \/ ReplUnsubOld
    \/ ReplSubNew
    \/ ReplReturn

Spec == Init /\ [][Next]_vars

TypeOK ==
    /\ DOMAIN books \subseteq Tokens
    /\ Range(market_pairs) \subseteq Markets
    /\ monitored_token_ids \subseteq Tokens
    /\ replaced_markets \subseteq {market_key(m) : m \in Markets}
    /\ Range(token_ids_to_subscribe) \subseteq Tokens
    /\ next_replacement_index \in 0 .. PoolSize
    /\ Len(replacement_queue) <= MaxQueue
    /\ \A i \in DOMAIN replacement_queue :
           /\ replacement_queue[i].market \in Markets
           /\ replacement_queue[i].reason \in {"trade", "unfavorable"}
    /\ executed_markets \subseteq {market_key(m) : m \in Markets}
    /\ is_executing \in BOOLEAN
    /\ expensive_counts \in [Markets -> 0 .. EXPENSIVE_LIMIT + 1]
    /\ strat.pc \in {"sleep", "gather", "cooldown"}
    /\ repl.pc \in {"idle", "found", "removed", "added", "unsubscribed", "returned"}
    /\ repl.outcome \in {"none", "no_candidate", "raised", "replaced"}
    /\ order_log \in [Markets -> Nat]
    /\ retired \subseteq Markets
    /\ dedup_hit \in BOOLEAN
    /\ arb_ledger \in [Markets -> Nat]
    /\ rejections \in [Markets -> {"none", "size", "net"}]

----------------------------------------------------------------------------
(* The order book alone: LocalOrderBook under update calls and feed messages *)

\* the program parked: no market watched, nothing queued, no task under way
ParkedProgram ==
    /\ market_pairs = <<>>
    /\ monitored_token_ids = {}
    /\ replaced_markets = {}
    /\ token_ids_to_subscribe = <<>>
    /\ next_replacement_index = MAX_MARKETS_TO_TRACK
    /\ replacement_queue = <<>>
    /\ ws_tokens = <<>>
    /\ executed_markets = {}
    /\ is_executing = FALSE
    /\ expensive_counts = [m \in Markets |-> 0]
    /\ strat = StratSleep
    /\ repl = ReplIdle
    /\ order_log = [m \in Markets |-> 0]
    /\ retired = {}
    /\ dedup_hit = FALSE
    /\ arb_ledger = [m \in Markets |-> 0]
    /\ rejections = [m \in Markets |-> "none"]

program_vars == <<market_pairs, monitored_token_ids, replaced_markets,
                  token_ids_to_subscribe, next_replacement_index, replacement_queue,
                  ws_tokens, executed_markets, is_executing, expensive_counts, strat,
                  repl, order_log, retired, dedup_hit, arb_ledger, rejections>>

\* the token whose book is exercised, and a token that has no book
BookToken == token_a(1)
StrayToken == token_b(1)
BookSides == {"buy", "sell"}
BookPrices == {PriceLo, PriceMid, PriceHi}
BookSizes == {0, SizeSmall, SizeFull}
Level(price, size) == [price |-> price, size |-> size]
\* the level lists a feed message carries: up to two ask levels, up to one bid
MessageLevels == {Level(p, z) : p \in BookPrices, z \in {0, SizeFull}}
AskLists == {<<>>} \cup {<<x>> : x \in MessageLevels}
                   \cup {<<x, y>> : x \in MessageLevels, y \in MessageLevels}
BidLists == {<<>>, <<Level(PriceLo, SizeFull)>>}
BookMessages ==
    {[asset_id |-> t, bids |-> bl, asks |-> al] :
        t \in {BookToken, StrayToken}, bl \in BidLists, al \in AskLists}

InitBook ==
    /\ books = [t \in {BookToken} |-> NewBook]
    /\ lag = NoLag
    /\ trader = NoTrader
    /\ finder = NoFinder
    /\ conn = NoConn
    /\ tally = NoTally
    /\ engine = NoEngine
    /\ scanned = NoScan
    /\ ParkedProgram

\* one LocalOrderBook.update call
BookUpdate(side, price, size) ==
    /\ books' = [books EXCEPT ![BookToken] = book_update(@, side, price, size)]
    /\ UNCHANGED <<program_vars, lag, trader, finder, conn, tally, engine, scanned>>

\* MarketStream._process_update on one message
ProcessUpdate(data) ==
    /\ books' = process_update(books, data)
    /\ UNCHANGED <<program_vars, lag, trader, finder, conn, tally, engine, scanned>>

NextBook ==
    \/ \E side \in BookSides, price \in BookPrices, size \in BookSizes :
           BookUpdate(side, price, size)
    \/ \E data \in BookMessages : ProcessUpdate(data)

SpecBook == InitBook /\ [][NextBook]_vars

----------------------------------------------------------------------------
(* The strategy alone: one watched market with books that do not move *)

ArbMarket == 1
ArbPrices == {PriceZero, PriceCheap, PriceEdge, PriceOver}
ArbSizes == {0, SizeDust, SizeThin, SizeUnder, SizeEnough, SizeFull, SizeDeep}
\* the best ask a book shows; a quote of size 0 is a book with no ask
ArbQuotes == {Level(p, z) : p \in ArbPrices, z \in ArbSizes}
QuotedBook(q) == book_update(NewBook, "sell", q.price, q.size)

\* has_b: token_b has a book; readmitted: the market was traded once and is
\* watched again, its key still in _executed_markets
InitArb ==
    \E q_a \in ArbQuotes, q_b \in ArbQuotes, has_b \in BOOLEAN, readmitted \in BOOLEAN :
        /\ books = [t \in (IF has_b THEN TokensOf(ArbMarket) ELSE {token_a(ArbMarket)}) |->
                       QuotedBook(IF t = token_a(ArbMarket) THEN q_a ELSE q_b)]
        /\ market_pairs = <<ArbMarket>>
        /\ monitored_token_ids = TokensOf(ArbMarket)
        /\ replaced_markets = {}
        /\ token_ids_to_subscribe = TokenList(<<ArbMarket>>)
        /\ ws_tokens = TokenList(<<ArbMarket>>)
        /\ next_replacement_index = MAX_MARKETS_TO_TRACK
        /\ replacement_queue = <<>>
        /\ executed_markets = IF readmitted THEN {market_key(ArbMarket)} ELSE {}
        /\ order_log = [m \in Markets |-> IF readmitted /\ m = ArbMarket THEN 1 ELSE 0]
        /\ arb_ledger = [m \in Markets |-> IF readmitted /\ m = ArbMarket THEN 1 ELSE 0]
        /\ retired = IF readmitted THEN {ArbMarket} ELSE {}
        /\ is_executing = FALSE
        /\ expensive_counts = [m \in Markets |-> 0]
        /\ strat = StratSleep
        /\ repl = ReplIdle
        /\ dedup_hit = FALSE
        /\ rejections = [m \in Markets |-> "none"]
        /\ lag = NoLag
        /\ trader = NoTrader
        /\ finder = NoFinder
        /\ conn = NoConn
        /\ tally = NoTally
        /\ engine = NoEngine
        /\ scanned = NoScan

NextArb ==
    \/ ScanPass
    \/ \E ok_a \in OrderResults, ok_b \in OrderResults : OrdersDone(ok_a, ok_b)
    \/ ExecFinish

SpecArb == InitArb /\ [][NextArb]_vars

----------------------------------------------------------------------------
(* PolyMarket_Binance_Arbitrage delta_lag_strategy.py: the outcome to buy *)

\* _determine_market_direction, lines 126 and 131; a title is modelled by the
\* set of keywords that occur in it
bearish_keywords == {"below", "under", "less than", "dip to", "drop to", "fall to", "<"}
bullish_keywords == {"above", "over", "reach", "hit", "exceed", ">", "higher"}

\* _determine_market_direction, lines 118-136: the bearish keywords are looked
\* for first, and a title with no keyword counts as bullish
determine_market_direction(title) ==
    IF title \cap bearish_keywords # {} THEN "bearish"
    ELSE IF title \cap bullish_keywords # {} THEN "bullish"
    ELSE "bullish"

\* a choice that follows the move whatever the market's direction is
outcome_follows_move(market, move_direction) ==
    IF move_direction = "up"
    THEN <<market.token_a, market.label_a, market.price_a, "YES (price up)">>
    ELSE <<market.token_b, market.label_b, market.price_b, "NO (price down)">>

\* _determine_outcome_to_buy, lines 138-171: (token_id, label, price, side_desc)
determine_outcome_to_buy(market, move_direction) ==
    IF determine_market_direction(market.title) = "bullish"
    THEN IF move_direction = "up"
         THEN <<market.token_a, market.label_a, market.price_a,
                "YES (bullish market, price up)">>
         ELSE <<market.token_b, market.label_b, market.price_b,
                "NO (bullish market, price down)">>
    ELSE IF move_direction = "up"
         THEN <<market.token_b, market.label_b, market.price_b,
                "NO (bearish market, price up)">>
         ELSE <<market.token_a, market.label_a, market.price_a,
                "YES (bearish market, price down)">>

\* the keywords the titles are drawn from, and the moves binance_feed reports
TitleKeywords == {"below", "<", "above", ">", "reach"}
MoveDirections == {"up", "down"}
LagMarket == 1
\* the market dict _check_lag_opportunity passes on
lag_market ==
    [token_a |-> token_a(LagMarket), token_b |-> token_b(LagMarket),
     label_a |-> "YES", label_b |-> "NO",
     price_a |-> lag.price_a, price_b |-> lag.price_b, title |-> lag.title]

InitLag ==
    /\ books = [t \in {} |-> NewBook]
    /\ lag \in [title : SUBSET TitleKeywords, move : MoveDirections,
                 price_a : {PriceLo, PriceHi}, price_b : {PriceLo, PriceHi},
                 bought : {<<>>}]
    /\ ParkedProgram
    /\ trader = NoTrader
    /\ finder = NoFinder
    /\ conn = NoConn
    /\ tally = NoTally
    /\ engine = NoEngine
    /\ scanned = NoScan

\* _check_lag_opportunity, lines 222-223
DetermineOutcome ==
    /\ lag.move \in MoveDirections
    /\ lag.bought = <<>>
    /\ lag' = [lag EXCEPT !.bought = determine_outcome_to_buy(lag_market, lag.move)]
    /\ UNCHANGED <<books, program_vars, trader, finder, conn, tally, engine, scanned>>

NextLag == DetermineOutcome

SpecLag == InitLag /\ [][NextLag]_vars

----------------------------------------------------------------------------
(* PolyMarket_Binance_Arbitrage delta_lag_strategy.py: lag check, positions, exits.
   One market; trader.ask is the best ask of the outcome the move selects, 0
   when get_market_prices gives None. *)

Abs(x) == IF x < 0 THEN -x ELSE x

\* lines 239-252: abs(poly_price_change_pct) < expected_poly_move, where the
\* change is taken as 0 when the recorded price is not positive (line 240) and
\* expected_poly_move = abs(price_change_pct) * 0.1 (line 248)
poly_moved_less(cur, last_price, mv) ==
    IF last_price > 0
    THEN Abs(cur - last_price) * 100000 < Abs(mv) * last_price
    ELSE 0 < Abs(mv)

\* a lag condition that takes a follower updated exactly EXPECTED_LAG_MIN ago
lag_detected_at_minimum(tr, mv) ==
    /\ Abs(mv) > DELTA_THRESHOLD_PERCENT
    /\ poly_moved_less(tr.ask, tr.last_price, mv)
    /\ tr.now - tr.last_ts >= EXPECTED_LAG_MIN

\* lines 251-253: the lag condition
lag_detected(tr, mv) ==
    /\ Abs(mv) > DELTA_THRESHOLD_PERCENT
    /\ poly_moved_less(tr.ask, tr.last_price, mv)
    /\ tr.now - tr.last_ts > EXPECTED_LAG_MIN

\* _calculate_max_bid (lines 313-344) and line 368: entry_price > max_bid, with
\* max_bid = entry_price * (1 + abs(move) * 0.1) / (1 + MIN_EXIT_PROFIT_PCT)
price_too_high(entry_price, mv) ==
    entry_price * (100000 + 1000 * MIN_EXIT_PROFIT_PCT)
        > entry_price * (100000 + 100 * Abs(mv))

\* lines 419-486 (Config.SIMULATION_MODE and SIMULATION_TEST_BOTH_STRATEGIES are
\* set): both simulated orders succeed, a position is recorded under market_id
\* and one under market_id + "_MARKET", and an exit timer is started for each
open_positions(tr) ==
    [tr EXCEPT
       !.positions = [i \in PositionIds |->
                         [open |-> TRUE, entry_time |-> tr.now, entry_price |-> tr.ask]],
       !.timers = @ \cup {[id |-> i, due |-> tr.now + EXIT_HOLD_SECONDS,
                            started_for |-> tr.now] : i \in PositionIds}]

\* _execute_lag_trade, lines 346-541
execute_lag_trade(tr, mv) ==
    IF price_too_high(tr.ask, mv) THEN tr ELSE open_positions(tr)

\* what the check looked at
Seen(tr, mv) ==
    [checked |-> TRUE, mv |-> mv, ask |-> tr.ask, has_last |-> tr.has_last,
     last_price |-> tr.last_price, since |-> tr.now - tr.last_ts,
     had_position |-> tr.positions["m"].open, spread_ok |-> tr.spread_ok]

\* _check_lag_opportunity, lines 173-311
check_lag_opportunity(tr, mv) ==
    LET seen == [tr EXCEPT !.seen = Seen(tr, mv)]
    IN  IF tr.positions["m"].open THEN [seen EXCEPT !.outcome = "has_position"]
        ELSE IF ~tr.spread_ok THEN [seen EXCEPT !.outcome = "spread"]
        ELSE IF tr.ask = 0 THEN [seen EXCEPT !.outcome = "no_prices"]
        ELSE IF tr.has_last
             THEN IF lag_detected(tr, mv)
                  THEN [execute_lag_trade(seen, mv) EXCEPT !.outcome = "declared"]
                  ELSE [seen EXCEPT !.outcome = "no_lag"]
             ELSE [seen EXCEPT !.outcome = "baseline", !.has_last = TRUE,
                               !.last_price = tr.ask, !.last_ts = tr.now]

\* handle_binance_move, lines 73-103, for the one market
BinanceMove(mv) ==
    /\ trader' = check_lag_opportunity(trader, mv)
    /\ UNCHANGED <<books, program_vars, lag, finder, conn, tally, engine, scanned>>

\* the lag check on its own: one check from each drawn state of the strategy
CheckMoves == {MoveAtThreshold, MoveOverThreshold, MoveSmall, -MoveSmall,
               MoveTickPass, MoveOverTickPass, -MoveOverTickPass}

InitCheck ==
    /\ books = [t \in {} |-> NewBook]
    /\ ParkedProgram
    /\ lag = NoLag
    /\ finder = NoFinder
    /\ conn = NoConn
    /\ tally = NoTally
    /\ engine = NoEngine
    /\ scanned = NoScan
    /\ \E ask \in {0, AskBase, AskTick}, spread_ok \in BOOLEAN, has_last \in BOOLEAN,
          last_price \in {0, AskBase}, since \in {EXPECTED_LAG_MIN, EXPECTED_LAG_MIN + 1},
          has_position \in BOOLEAN :
          /\ has_position => has_last
          /\ ~has_last => last_price = 0 /\ since = EXPECTED_LAG_MIN
          /\ trader = [NoTrader EXCEPT
                 !.now = CheckClock, !.ask = ask, !.spread_ok = spread_ok,
                 !.has_last = has_last, !.last_price = last_price,
                 !.last_ts = IF has_last THEN CheckClock - since ELSE 0,
                 !.positions = IF has_position
                               THEN [i \in PositionIds |->
                                       [open |-> TRUE, entry_time |-> 0,
                                        entry_price |-> AskBase]]
                               ELSE @,
                 !.timers = IF has_position
                            THEN {[id |-> i, due |-> EXIT_HOLD_SECONDS, started_for |-> 0] :
                                     i \in PositionIds}
                            ELSE {}]

NextCheck == \E mv \in CheckMoves : ~trader.seen.checked /\ BinanceMove(mv)

SpecCheck == InitCheck /\ [][NextCheck]_vars

----------------------------------------------------------------------------
(* PolyMarket_Binance_Arbitrage: positions and their exits over time *)

\* polymarket_price_monitor.get_market_prices(market_id), lines 85-103: the
\* market is looked up by its market_id, which no "_MARKET" key matches
has_market_prices(tr, id) == id = "m" /\ tr.ask # 0

\* lines 575 and 593 (and 644, 660): profit_pct >= MIN_EXIT_PROFIT_PCT * 100
profit_reached(tr, id) ==
    (tr.ask - tr.positions[id].entry_price) * 100
        >= MIN_EXIT_PROFIT_PCT * tr.positions[id].entry_price

\* _exit_position, lines 550-598; timer_for is the entry time of the position
\* the calling timer was started for, -1 when the caller is no timer
exit_position(tr, id, timer_for) ==
    IF ~tr.positions[id].open THEN tr
    ELSE IF ~has_market_prices(tr, id) THEN tr
    ELSE IF profit_reached(tr, id)
         THEN [tr EXCEPT
                 !.positions[id] = NoPosition,
                 !.last_exit = IF id = "m" THEN tr.now ELSE @,
                 !.closed = [id |-> id, hold |-> tr.now - tr.positions[id].entry_time,
                             held_by |-> tr.positions[id].entry_time,
                             timer_for |-> timer_for]]
         ELSE tr

\* _check_exit_conditions, lines 618-665
check_exit_conditions(tr, id) ==
    IF ~tr.positions[id].open THEN tr
    ELSE IF ~has_market_prices(tr, id) THEN tr
    ELSE LET hold_time == tr.now - tr.positions[id].entry_time
         IN  IF profit_reached(tr, id) /\ hold_time >= EARLY_EXIT_HOLD
             THEN exit_position(tr, id, -1)
             ELSE IF hold_time >= EXIT_HOLD_SECONDS
                  THEN exit_position(tr, id, -1)
                  ELSE tr

\* handle_poly_price_update, lines 600-616, for a token of the market
handle_poly_price_update(tr, price) ==
    LET rec == [tr EXCEPT !.ask = price, !.has_last = TRUE,
                          !.last_price = price, !.last_ts = tr.now]
    IN  IF rec.positions["m"].open THEN check_exit_conditions(rec, "m") ELSE rec

Forget(tr) == [tr EXCEPT !.seen = NoSeen, !.outcome = "none"]

\* the follower's book gets a new best ask and the monitor calls back
\* (polymarket_price_monitor.py lines 686-689)
PriceUpdate(price) ==
    /\ price >= trader.ask
    /\ trader' = handle_poly_price_update(Forget(trader), price)
    /\ UNCHANGED <<books, program_vars, lag, finder, conn, tally, engine, scanned>>

\* _schedule_exit, lines 543-548: the sleep of a timer ends
TimerFire(t) ==
    /\ t \in trader.timers
    /\ t.due = trader.now
    /\ trader' = LET rest == [Forget(trader) EXCEPT !.timers = @ \ {t}]
                  IN  IF rest.positions[t.id].open
                      THEN exit_position(rest, t.id, t.started_for)
                      ELSE rest
    /\ UNCHANGED <<books, program_vars, lag, finder, conn, tally, engine, scanned>>

\* a second passes; a timer whose sleep has ended runs first
Tick ==
    /\ trader.now < MaxClock
    /\ \A t \in trader.timers : t.due > trader.now
    /\ trader' = [Forget(trader) EXCEPT !.now = @ + 1]
    /\ UNCHANGED <<books, program_vars, lag, finder, conn, tally, engine, scanned>>

PositionAsks == {AskBase, AskUp, AskUpAgain}

InitPos ==
    /\ books = [t \in {} |-> NewBook]
    /\ ParkedProgram
    /\ lag = NoLag
    /\ finder = NoFinder
    /\ conn = NoConn
    /\ tally = NoTally
    /\ engine = NoEngine
    /\ scanned = NoScan
    /\ trader = [NoTrader EXCEPT !.ask = AskBase]

NextPos ==
    \/ Tick
    \/ BinanceMove(MoveSmall)
    \/ \E price \in PositionAsks : PriceUpdate(price)
    \/ \E t \in trader.timers : TimerFire(t)

SpecPos == InitPos /\ [][NextPos]_vars

----------------------------------------------------------------------------
(* display.py MarketDisplay.display_table: the count of "Expensive" rows *)

\* history: a market's run of consecutive rows with the status "Expensive",
\* counted from the row after its last replacement request, and whether this
\* table asked for its replacement
TallyAfter(bk, tl, counts, ms) ==
    [m \in Markets |->
        IF m \notin Range(ms) THEN tl[m]
        ELSE [bad |-> IF IsExpensive(bk, m)
                      THEN (IF tl[m].asked THEN 0 ELSE tl[m].bad) + 1
                      ELSE 0,
              asked |-> m \in Range(markets_to_replace(bk, counts, ms))]]

\* display_table(), called by periodic_refresh or by the stream's callback
DisplayTick ==
    /\ repl.pc = "idle"
    /\ display_table(books)
    /\ tally' = TallyAfter(books, tally, expensive_counts, market_pairs)
    /\ UNCHANGED <<books, market_pairs, monitored_token_ids, replaced_markets,
                   token_ids_to_subscribe, next_replacement_index, ws_tokens,
                   executed_markets, is_executing, strat, repl,
                   order_log, retired, dedup_hit,
                   arb_ledger, rejections, lag, trader, finder, conn, engine, scanned>>

\* the prices and sizes of the ask levels the venue sends for a watched token
DisplayPrices == {PriceLo, PriceHi}
DisplaySizes == {0, SizeFull}

\* MarketStream._process_update for one ask level of one token; the table is
\* not redrawn (the throttles of lines 186-191 hold the callback back)
DisplayFeed(t, price, size) ==
    /\ repl.pc = "idle"
    /\ t \in Range(ws_tokens)
    /\ books' = ProcessItems(books, <<Item(t, price, size)>>, 1)
    /\ UNCHANGED <<market_pairs, monitored_token_ids, replaced_markets,
                   token_ids_to_subscribe, next_replacement_index, replacement_queue,
                   ws_tokens, executed_markets, is_executing, expensive_counts,
                   strat, repl, order_log, retired, dedup_hit,
                   arb_ledger, rejections, lag, trader, finder, conn, tally, engine, scanned>>

\* the program after start-up with every market of the pool tried as a
\* replacement: both watched markets quoted at PriceHi, the queue empty
InitDisplay ==
    /\ market_pairs = SubSeq(replacement_pool, 1, MAX_MARKETS_TO_TRACK)
    /\ books = [t \in Range(TokenList(market_pairs)) |->
                   book_update(NewBook, "sell", PriceHi, SizeFull)]
    /\ token_ids_to_subscribe = TokenList(market_pairs)
    /\ monitored_token_ids = Range(token_ids_to_subscribe)
    /\ ws_tokens = token_ids_to_subscribe
    /\ replaced_markets = {}
    /\ next_replacement_index = PoolSize
    /\ replacement_queue = <<>>
    /\ executed_markets = {}
    /\ is_executing = FALSE
    /\ expensive_counts = [m \in Markets |-> 0]
    /\ strat = StratSleep
    /\ repl = ReplIdle
    /\ order_log = [m \in Markets |-> 0]
    /\ retired = {}
    /\ dedup_hit = FALSE
    /\ arb_ledger = [m \in Markets |-> 0]
    /\ rejections = [m \in Markets |-> "none"]
    /\ lag = NoLag
    /\ trader = NoTrader
    /\ finder = NoFinder
    /\ conn = NoConn
    /\ tally = NoTally
    /\ engine = NoEngine
    /\ scanned = NoScan

NextDisplay ==
    \/ DisplayTick
    \/ \E t \in Tokens, price \in DisplayPrices, size \in DisplaySizes :
           DisplayFeed(t, price, size)
    \/ \E fetchf \in [Untried -> FetchKinds] : ReplSearch(fetchf)
    \/ ReplReturn

SpecDisplay == InitDisplay /\ [][NextDisplay]_vars

----------------------------------------------------------------------------
(* discovery.py MarketDiscovery.get_top_markets *)

\* config.py: dollars, dollars, and MIN_HOURS_UNTIL_END = 1.0 hour in minutes
MIN_LIQUIDITY_USDC == 500
MIN_VOLUME_USDC == 100
MIN_HOURS_UNTIL_END == 60
\* lines 33 and 37: the liquidity and the volume that earn the full component
LIQUIDITY_CAP == 50000
VOLUME_CAP == 10000
\* line 191: the band of the combined outcome price, in thousandths
TOTAL_PRICE_MIN == 900
TOTAL_PRICE_MAX == 1100

Min2(a, b) == IF a <= b THEN a ELSE b
Hours(h) == h * 60

\* _calculate_market_score, lines 33, 37, 42-50 and 55-64; scores are in
\* 1/5000 of a point: a dollar of liquidity is worth 4 and a dollar of volume
\* 15 of them, so liquidity / 50000 * 40 and volume / 10000 * 30 are exact
liquidity_score(market) == Min2(40 * 5000, market.liquidity * ((40 * 5000) \div LIQUIDITY_CAP))
volume_score(market) == Min2(30 * 5000, market.volume * ((30 * 5000) \div VOLUME_CAP))
price_score(market) ==
    LET price_diff == Abs(1000 - (market.price_a + market.price_b))
    IN  IF price_diff <= 10 THEN 20 * 5000
        ELSE IF price_diff <= 50 THEN 15 * 5000
        ELSE IF price_diff <= 100 THEN 10 * 5000
        ELSE 0
\* a time score whose best window is 7 to 30 days
time_score_late_peak(hours_until_end) ==
    IF Hours(24) <= hours_until_end /\ hours_until_end <= Hours(168) THEN 7 * 5000
    ELSE IF Hours(168) < hours_until_end /\ hours_until_end <= Hours(720) THEN 10 * 5000
    ELSE IF Hours(12) <= hours_until_end /\ hours_until_end < Hours(24) THEN 5 * 5000
    ELSE IF hours_until_end > Hours(720) THEN 3 * 5000
    ELSE 1 * 5000

time_score(hours_until_end) ==
    IF Hours(24) <= hours_until_end /\ hours_until_end <= Hours(168) THEN 10 * 5000
    ELSE IF Hours(168) < hours_until_end /\ hours_until_end <= Hours(720) THEN 7 * 5000
    ELSE IF Hours(12) <= hours_until_end /\ hours_until_end < Hours(24) THEN 5 * 5000
    ELSE IF hours_until_end > Hours(720) THEN 3 * 5000
    ELSE 1 * 5000

\* a score whose liquidity component falls back past the cap
score_folding_liquidity(market, hours_until_end) ==
    (IF market.liquidity > LIQUIDITY_CAP THEN 0 ELSE liquidity_score(market))
    + volume_score(market) + price_score(market) + time_score(hours_until_end)

\* _calculate_market_score, line 66
calculate_market_score(market, hours_until_end) ==
    liquidity_score(market) + volume_score(market) + price_score(market)
    + time_score(hours_until_end)

\* a validation without the volume check
validation_without_volume(m) ==
    IF ~m.active \/ m.closed THEN 1
    ELSE IF m.liquidity < MIN_LIQUIDITY_USDC THEN 2
    ELSE IF m.end_kind # "date" THEN 3
    ELSE IF m.end_in <= 0 \/ m.end_in < MIN_HOURS_UNTIL_END THEN 3
    ELSE IF m.outcomes # 2 \/ m.prices # 2 \/ m.clob_ids # 2 THEN 4
    ELSE IF m.price_a + m.price_b < TOTAL_PRICE_MIN
            \/ m.price_a + m.price_b > TOTAL_PRICE_MAX THEN 5
    ELSE 0

\* lines 119-197: the number of the validation that skips the entry, 0 if
\* none does (finder.skipped is history: the validations that have skipped
\* an entry); end_kind is "missing" (no endDate), "malformed" (fromisoformat
\* raises) or "date", end_in is the time to the end date in minutes
validation(m) ==
    IF ~m.active \/ m.closed THEN 1
    ELSE IF m.liquidity < MIN_LIQUIDITY_USDC THEN 2
    ELSE IF m.end_kind # "date" THEN 3
    ELSE IF m.end_in <= 0 \/ m.end_in < MIN_HOURS_UNTIL_END THEN 3
    ELSE IF m.outcomes # 2 \/ m.prices # 2 \/ m.clob_ids # 2 THEN 4
    ELSE IF m.price_a + m.price_b < TOTAL_PRICE_MIN
            \/ m.price_a + m.price_b > TOTAL_PRICE_MAX THEN 5
    ELSE IF m.volume < MIN_VOLUME_USDC THEN 6
    ELSE 0

\* lines 207-220; entry is history: the catalog entry the market was made from
market_obj(m) ==
    [price_a |-> m.price_a, price_b |-> m.price_b, volume |-> m.volume,
     liquidity |-> m.liquidity, hours_until_end |-> m.end_in, score |-> 0,
     entry |-> m]

\* lines 237-241
RECURSIVE ScoreAll(_)
ScoreAll(ms) ==
    IF ms = <<>> THEN <<>>
    ELSE <<[Head(ms) EXCEPT !.score =
               calculate_market_score(Head(ms), Head(ms).hours_until_end)]>>
         \o ScoreAll(Tail(ms))

\* line 244: scored_markets.sort(key=score, reverse=True), a stable sort
RECURSIVE InsertScored(_, _)
InsertScored(sorted, market) ==
    IF sorted = <<>> THEN <<market>>
    ELSE IF Head(sorted).score >= market.score
         THEN <<Head(sorted)>> \o InsertScored(Tail(sorted), market)
         ELSE <<market>> \o sorted
RECURSIVE SortScored(_, _)
SortScored(sorted, ms) ==
    IF ms = <<>> THEN sorted
    ELSE SortScored(InsertScored(sorted, Head(ms)), Tail(ms))

\* the catalog entries the API returns
CatalogEnds ==
    {[kind |-> "missing", end_in |-> 0], [kind |-> "malformed", end_in |-> 0],
     [kind |-> "date", end_in |-> 0 - MIN_HOURS_UNTIL_END],
     [kind |-> "date", end_in |-> 0],
     [kind |-> "date", end_in |-> MIN_HOURS_UNTIL_END - 1],
     [kind |-> "date", end_in |-> MIN_HOURS_UNTIL_END],
     [kind |-> "date", end_in |-> Hours(24)]}
CatalogTotals ==
    {<<TOTAL_PRICE_MIN \div 2, TOTAL_PRICE_MIN \div 2 - 1>>,
     <<TOTAL_PRICE_MIN \div 2, TOTAL_PRICE_MIN \div 2>>,
     <<TOTAL_PRICE_MAX \div 2, TOTAL_PRICE_MAX \div 2>>,
     <<TOTAL_PRICE_MAX \div 2, TOTAL_PRICE_MAX \div 2 + 1>>}
CatalogEntries ==
    {[active |-> a, closed |-> c, liquidity |-> l, end_kind |-> e.kind,
      end_in |-> e.end_in, outcomes |-> o, prices |-> 2, clob_ids |-> t,
      price_a |-> p[1], price_b |-> p[2], volume |-> v] :
        a \in BOOLEAN, c \in BOOLEAN,
        l \in {MIN_LIQUIDITY_USDC - 1, MIN_LIQUIDITY_USDC, LIQUIDITY_CAP},
        e \in CatalogEnds, o \in {2, 3}, t \in {1, 2}, p \in CatalogTotals,
        v \in {MIN_VOLUME_USDC - 1, MIN_VOLUME_USDC}}

\* lines 118-228: the loop body for one entry of a batch
ScanEntry(m) ==
    /\ finder.pc = "scan"
    /\ Len(finder.valid) < MARKETS_TO_SCAN
    /\ finder' = [finder EXCEPT
                    !.skipped = IF validation(m) = 0 THEN @ ELSE @ \cup {validation(m)},
                    !.valid = IF validation(m) = 0 THEN Append(@, market_obj(m)) ELSE @]
    /\ UNCHANGED <<books, program_vars, lag, trader, conn, tally, engine, scanned>>

\* lines 94, 110-111 and 234-260: the scan is full or the API has no more
\* entries; the valid markets are scored, sorted and cut to the limit
RankMarkets ==
    /\ finder.pc = "scan"
    /\ LET scored_markets == SortScored(<<>>, ScoreAll(finder.valid))
       IN  finder' = [finder EXCEPT
                        !.pc = "done",
                        !.scored = scored_markets,
                        !.top = SubSeq(scored_markets, 1,
                                       Min2(FindLimit, Len(scored_markets)))]
    /\ UNCHANGED <<books, program_vars, lag, trader, conn, tally, engine, scanned>>

InitFind ==
    /\ books = [t \in {} |-> NewBook]
    /\ ParkedProgram
    /\ lag = NoLag
    /\ trader = NoTrader
    /\ conn = NoConn
    /\ tally = NoTally
    /\ engine = NoEngine
    /\ scanned = NoScan
    /\ finder = [pc |-> "scan", valid |-> <<>>, skipped |-> {},
                 scored |-> <<>>, top |-> <<>>]

NextFind ==
    \/ \E m \in CatalogEntries : ScanEntry(m)
    \/ RankMarkets

SpecFind == InitFind /\ [][NextFind]_vars

----------------------------------------------------------------------------
(* discovery.py MarketDiscovery._calculate_market_score on valid markets *)

\* the inputs of the score, each on and around the corners of its component:
\* dollars of liquidity and volume, the price of the second outcome next to a
\* first outcome at 0.450, and minutes to the end
ScoreLiquidities ==
    {MIN_LIQUIDITY_USDC, LIQUIDITY_CAP \div 2, LIQUIDITY_CAP,
     LIQUIDITY_CAP + LIQUIDITY_CAP \div 2}
ScoreVolumes == {MIN_VOLUME_USDC, VOLUME_CAP \div 2, VOLUME_CAP, 2 * VOLUME_CAP}
ScorePriceA == TOTAL_PRICE_MIN \div 2
ScorePricesB ==
    {1000 - ScorePriceA + d : d \in {0 - 100, 0 - 51, 0 - 50, 0 - 11, 0 - 10, 0,
                                     10, 11, 50, 51, 100}}
ScoreHours ==
    {MIN_HOURS_UNTIL_END, Hours(12) - 1, Hours(12), Hours(24) - 1, Hours(24),
     Hours(168), Hours(168) + 1, Hours(720), Hours(720) + 1}
ScoredMarkets ==
    {[price_a |-> ScorePriceA, price_b |-> p, volume |-> v, liquidity |-> l,
      hours_until_end |-> h] :
        p \in ScorePricesB, v \in ScoreVolumes, l \in ScoreLiquidities, h \in ScoreHours}

\* the markets that differ from a market in at most one input
OneInputAway(market) ==
    {[market EXCEPT !.liquidity = l] : l \in ScoreLiquidities}
    \cup {[market EXCEPT !.volume = v] : v \in ScoreVolumes}
    \cup {[market EXCEPT !.price_b = p] : p \in ScorePricesB}
    \cup {[market EXCEPT !.hours_until_end = h] : h \in ScoreHours}

\* the components of a score, lines 33-64
score_parts(market) ==
    [liquidity |-> liquidity_score(market), volume |-> volume_score(market),
     price |-> price_score(market), time |-> time_score(market.hours_until_end)]

NoParts == [liquidity |-> 0, volume |-> 0, price |-> 0, time |-> 0]

\* lines 238-240: the score of a valid market, for two markets of a scan
CalculateScores ==
    /\ finder.pc = "rate"
    /\ finder' = [finder EXCEPT
                    !.pc = "rated",
                    !.score = calculate_market_score(finder.market,
                                                     finder.market.hours_until_end),
                    !.parts = score_parts(finder.market),
                    !.other_score = calculate_market_score(finder.other,
                                                           finder.other.hours_until_end),
                    !.other_parts = score_parts(finder.other)]
    /\ UNCHANGED <<books, program_vars, lag, trader, conn, tally, engine, scanned>>

InitScore ==
    /\ books = [t \in {} |-> NewBook]
    /\ ParkedProgram
    /\ lag = NoLag
    /\ trader = NoTrader
    /\ conn = NoConn
    /\ tally = NoTally
    /\ engine = NoEngine
    /\ scanned = NoScan
    /\ \E market \in ScoredMarkets : \E other \in OneInputAway(market) :
           finder = [pc |-> "rate", market |-> market, other |-> other,
                     score |-> 0, parts |-> NoParts,
                     other_score |-> 0, other_parts |-> NoParts]

NextScore == CalculateScores

SpecScore == InitScore /\ [][NextScore]_vars

----------------------------------------------------------------------------
(* market_stream.py MarketStream.start: the connection loop and its messages *)

\* line 133: await asyncio.sleep(5)
RECONNECT_DELAY == 5

\* a JSON value in the place of a price or a size: a number, a text that is no
\* number, or no value at all
Num(n) == [text |-> "number", value |-> n]
NotANumber == [text |-> "word", value |-> 0]
Missing == [text |-> "missing", value |-> 0]

\* a parser that reads every bad value as 0
parse_or_zero(entry) ==
    [none |-> FALSE,
     price |-> IF entry.price.text = "number" THEN entry.price.value ELSE 0,
     size |-> IF entry.size.text = "number" THEN entry.size.value ELSE 0]

\* _p, lines 196-209, for a dict entry: float(item.get("price", 0)) and
\* float(item.get("size", 0)); a ValueError or TypeError gives (None, None)
parse_entry(entry) ==
    LET price == IF entry.price.text = "missing" THEN Num(0) ELSE entry.price
        size == IF entry.size.text = "missing" THEN Num(0) ELSE entry.size
    IN  IF price.text = "number" /\ size.text = "number"
        THEN [none |-> FALSE, price |-> price.value, size |-> size.value]
        ELSE [none |-> TRUE, price |-> 0, size |-> 0]

\* lines 179-183: the entries of "asks" that _p could read, in order
RECURSIVE ParsedLevels(_)
ParsedLevels(entries) ==
    IF entries = <<>> THEN <<>>
    ELSE (IF parse_entry(Head(entries)).none THEN <<>>
          ELSE <<Level(parse_entry(Head(entries)).price, parse_entry(Head(entries)).size)>>)
         \o ParsedLevels(Tail(entries))

\* _process_update for one item of a message: an item that is no JSON object
\* returns at line 138
process_item(bk, item) ==
    IF item.kind # "object" THEN bk
    ELSE process_update(bk, [asset_id |-> item.asset_id, bids |-> <<>>,
                             asks |-> ParsedLevels(item.asks)])

RECURSIVE ProcessList(_, _)
ProcessList(bk, items) ==
    IF items = <<>> THEN bk
    ELSE ProcessList(process_item(bk, Head(items)), Tail(items))

\* lines 95-113: json.loads and the dispatch on the type of the value; a
\* JSONDecodeError is logged, a value that is neither list nor dict goes to
\* _process_update, which returns at once
dispatch(bk, frame) ==
    IF frame.body = "invalid" THEN bk
    ELSE IF frame.body = "list" THEN ProcessList(bk, frame.items)
    ELSE IF frame.body = "dict" THEN process_item(bk, frame.items[1])
    ELSE bk

\* the text frames of the venue
FeedEntries ==
    {[price |-> Num(PriceLo), size |-> Num(SizeFull)],
     [price |-> Num(PriceHi), size |-> Num(SizeFull)],
     [price |-> Num(PriceLo), size |-> Num(0)],
     [price |-> NotANumber, size |-> Num(SizeFull)],
     [price |-> Num(PriceLo), size |-> NotANumber],
     [price |-> Missing, size |-> Num(SizeFull)]}
Junk == [kind |-> "junk", asset_id |-> 0, asks |-> <<>>]
FeedItems ==
    {[kind |-> "object", asset_id |-> BookToken, asks |-> al] :
        al \in {<<x>> : x \in FeedEntries} \cup {<<x, y>> : x \in FeedEntries, y \in FeedEntries}}
FeedFrames ==
    {[body |-> "invalid", items |-> <<>>], [body |-> "scalar", items |-> <<>>]}
    \cup {[body |-> "dict", items |-> <<i>>] : i \in FeedItems}
    \cup {[body |-> "list", items |-> <<i>>] : i \in FeedItems \cup {Junk}}
    \cup {[body |-> "list", items |-> <<Junk, i>>] : i \in FeedItems}
NoFrame == [body |-> "none", items |-> <<>>]

\* lines 47-51 and 131-133: session.ws_connect; a failure is caught by the
\* outer handler, which sleeps
Connect(ok) ==
    /\ conn.pc = "connect"
    /\ conn.session < MaxSessions
    /\ conn' = IF ok
               THEN [conn EXCEPT !.pc = "subscribe", !.session = @ + 1, !.last = NoFrame,
                                 !.attempt_after = conn.lost, !.attempt_waited = conn.waited]
               ELSE [conn EXCEPT !.pc = "sleep", !.lost = "connect_failed", !.waited = 0,
                                 !.last = NoFrame,
                                 !.attempt_after = conn.lost, !.attempt_waited = conn.waited]
    /\ UNCHANGED <<books, program_vars, lag, trader, finder, tally, engine, scanned>>

\* lines 56-68: the subscribe payload is sent; on a timeout the loop continues
\* at once, any other exception reaches the outer handler
Subscribe(sent) ==
    /\ conn.pc = "subscribe"
    /\ conn' = IF sent = "ok"
               THEN [conn EXCEPT !.pc = "listen", !.subscribed = conn.session,
                                 !.last = NoFrame]
               ELSE IF sent = "timeout"
               THEN [conn EXCEPT !.pc = "connect", !.lost = "send_timeout", !.waited = 0,
                                 !.last = NoFrame]
               ELSE [conn EXCEPT !.pc = "sleep", !.lost = "socket_error", !.waited = 0,
                                 !.last = NoFrame]
    /\ UNCHANGED <<books, program_vars, lag, trader, finder, tally, engine, scanned>>

\* lines 83-113: a text frame; last and before are history (the frame the
\* latest step of the task handled, if it handled one, and the books before it)
Receive(frame) ==
    /\ conn.pc = "listen"
    /\ books' = dispatch(books, frame)
    /\ conn' = [conn EXCEPT !.last = frame, !.before = books]
    /\ UNCHANGED <<program_vars, lag, trader, finder, tally, engine, scanned>>

\* lines 78-81, 115-120 and 126-129: no message for 60 s, an error frame, a
\* close by the server, an exception in the message loop: the listen loop is
\* left and the while loop connects again
Lose(reason) ==
    /\ conn.pc = "listen"
    /\ conn' = [conn EXCEPT !.pc = "connect", !.lost = reason, !.waited = 0,
                             !.last = NoFrame]
    /\ UNCHANGED <<books, program_vars, lag, trader, finder, tally, engine, scanned>>

\* line 133: the sleep of the outer handler is over
Wake ==
    /\ conn.pc = "sleep"
    /\ conn' = [conn EXCEPT !.pc = "connect", !.waited = RECONNECT_DELAY,
                             !.last = NoFrame]
    /\ UNCHANGED <<books, program_vars, lag, trader, finder, tally, engine, scanned>>

SendResults == {"ok", "timeout", "error"}
LossReasons == {"stale", "error_frame", "closed", "socket_error"}

InitConn ==
    /\ books = [t \in {BookToken} |-> NewBook]
    /\ ParkedProgram
    /\ lag = NoLag
    /\ trader = NoTrader
    /\ finder = NoFinder
    /\ tally = NoTally
    /\ engine = NoEngine
    /\ scanned = NoScan
    /\ conn = [pc |-> "connect", session |-> 0, subscribed |-> 0,
               lost |-> "none", waited |-> 0,
               attempt_after |-> "none", attempt_waited |-> 0,
               last |-> NoFrame, before |-> books]

NextConn ==
    \/ \E ok \in BOOLEAN : Connect(ok)
    \/ \E sent \in SendResults : Subscribe(sent)
    \/ \E frame \in FeedFrames : Receive(frame)
    \/ \E reason \in LossReasons : Lose(reason)
    \/ Wake

SpecConn == InitConn /\ [][NextConn]_vars

----------------------------------------------------------------------------
(* market_stream.py MarketStream.start: the staleness check of the listen loop *)

\* line 79: current_time - last_message_time > 60
STALE_AFTER == 60

\* the times without a message at which the task is looked at, in seconds
QuietTimes == {1, STALE_AFTER \div 2, STALE_AFTER - 1, STALE_AFTER, STALE_AFTER + 1}

\* lines 47-72: the connection is made, the subscription sent, and
\* last_message_time is set to the time the listen loop starts
Establish ==
    /\ conn.pc = "connect"
    /\ conn.session < MaxSessions
    /\ conn' = [conn EXCEPT !.pc = "listen", !.session = @ + 1, !.quiet = 0]
    /\ UNCHANGED <<books, program_vars, lag, trader, finder, tally, engine, scanned>>

\* time passes while `async for msg in ws` waits for the next message; the
\* heartbeat pings of line 49 and their pongs are answered inside the library
\* and are not yielded to the loop
Silence(q) ==
    /\ conn.pc = "listen"
    /\ q > conn.quiet
    /\ conn' = [conn EXCEPT !.quiet = q]
    /\ UNCHANGED <<books, program_vars, lag, trader, finder, tally, engine, scanned>>

\* lines 75-113: a text frame is yielded; the staleness check runs first and
\* leaves the loop without reading the frame, else last_message_time is set
\* and the frame is dispatched
Arrive(frame) ==
    /\ conn.pc = "listen"
    /\ IF conn.quiet > STALE_AFTER
       THEN /\ conn' = [conn EXCEPT !.pc = "connect"]
            /\ books' = books
       ELSE /\ conn' = [conn EXCEPT !.quiet = 0]
            /\ books' = dispatch(books, frame)
    /\ UNCHANGED <<program_vars, lag, trader, finder, tally, engine, scanned>>

InitStale ==
    /\ books = [t \in {BookToken} |-> NewBook]
    /\ ParkedProgram
    /\ lag = NoLag
    /\ trader = NoTrader
    /\ finder = NoFinder
    /\ tally = NoTally
    /\ engine = NoEngine
    /\ scanned = NoScan
    /\ conn = [pc |-> "connect", session |-> 0, quiet |-> 0]

NextStale ==
    \/ Establish
    \/ \E q \in QuietTimes : Silence(q)
    \/ \E frame \in FeedFrames : Arrive(frame)

SpecStale == InitStale /\ [][NextStale]_vars

\* the task runs whenever it can: it connects when it is not connected; when a
\* frame arrives, and how long none does, is up to the venue
FairStale == SpecStale /\ WF_vars(Establish)

----------------------------------------------------------------------------
(* Polymarket_Arbitrage execution.py: ExecutionEngine.place_order.
   engine.mode is Config.SIMULATION_MODE, engine.rows the rows appended to
   Config.SIM_CSV_FILE, engine.venue_calls the calls of create_and_post_order,
   engine.calls the calls made, each with its inputs and what came back. *)

MaxOrders == 3
NoOrderId == "None"
SimOrderId == "sim-"

\* what client.create_and_post_order can do: raise, return nothing, return a
\* response that reports a rejection, return a response with success and an id
VenueRaises == [raises |-> TRUE, present |-> FALSE, success |-> FALSE, orderID |-> NoOrderId]
VenueSilent == [raises |-> FALSE, present |-> FALSE, success |-> FALSE, orderID |-> NoOrderId]
VenueRejects == [raises |-> FALSE, present |-> TRUE, success |-> FALSE, orderID |-> NoOrderId]
VenueAccepts(id) == [raises |-> FALSE, present |-> TRUE, success |-> TRUE, orderID |-> id]
VenueOutcomes == {VenueRaises, VenueSilent, VenueRejects, VenueAccepts("v1"), VenueAccepts("v2")}

\* _simulate_trade, lines 62-85: the row is written inside a try whose except
\* only logs; the id is returned either way
simulate_trade(write_ok) ==
    [raised |-> FALSE, value |-> SimOrderId,
     rows |-> IF write_ok THEN 1 ELSE 0, venue_calls |-> 0]

\* place_order, lines 34-56: the body of the try
place_order_body(mode, venue, write_ok) ==
    IF mode = "simulated" THEN simulate_trade(write_ok)
    ELSE IF venue.raises
         THEN [raised |-> TRUE, value |-> NoOrderId, rows |-> 0, venue_calls |-> 1]
    ELSE IF venue.present /\ venue.success
         THEN [raised |-> FALSE, value |-> venue.orderID, rows |-> 0, venue_calls |-> 1]
    ELSE IF venue.present
         THEN [raised |-> FALSE, value |-> NoOrderId, rows |-> 0, venue_calls |-> 1]
    \* line 55: resp.get on a response that is None raises
    ELSE [raised |-> TRUE, value |-> NoOrderId, rows |-> 0, venue_calls |-> 1]

\* place_order with no except clause
place_order_unguarded(mode, venue, write_ok) ==
    place_order_body(mode, venue, write_ok)

\* place_order, lines 28-60: the try and its except Exception
place_order(mode, venue, write_ok) ==
    LET r == place_order_body(mode, venue, write_ok)
    IN  IF r.raised THEN [r EXCEPT !.raised = FALSE, !.value = NoOrderId] ELSE r

\* one call of place_order
PlaceOrder(venue, write_ok) ==
    /\ engine.mode # "none"
    /\ Len(engine.calls) < MaxOrders
    /\ engine.mode = "simulated" => venue = VenueSilent
    /\ engine.mode = "live" => write_ok
    /\ LET r == place_order(engine.mode, venue, write_ok)
       IN  engine' = [engine EXCEPT
               !.calls = Append(@, [venue |-> venue, write_ok |-> write_ok,
                                    raised |-> r.raised, value |-> r.value,
                                    rows |-> r.rows, venue_calls |-> r.venue_calls]),
               !.rows = @ + r.rows,
               !.venue_calls = @ + r.venue_calls]
    /\ UNCHANGED <<books, program_vars, lag, trader, finder, conn, tally, scanned>>

InitOrder ==
    /\ books = [t \in {} |-> NewBook]
    /\ ParkedProgram
    /\ lag = NoLag
    /\ trader = NoTrader
    /\ finder = NoFinder
    /\ conn = NoConn
    /\ tally = NoTally
    /\ engine \in {[NoEngine EXCEPT !.mode = md] : md \in {"simulated", "live"}}
    /\ scanned = NoScan

NextOrder == \E venue \in VenueOutcomes, write_ok \in BOOLEAN : PlaceOrder(venue, write_ok)

SpecOrder == InitOrder /\ [][NextOrder]_vars

----------------------------------------------------------------------------
(* PolyMarket_Binance_Arbitrage delta_lag_strategy.py: the record
   last_poly_prices[market_id] of one market. Here trader.last is that record
   (has: the key is in the dict) and trader.observed the prices the monitor
   has reported for each of the market's two tokens. *)

RecordTokens == {"token_a", "token_b"}
RecordPrices == {AskBase, AskTick, AskUp}
NoRecord == [has |-> FALSE, token_a |-> 0, token_b |-> 0]

\* lines 607-611: the updated token gets the price; the other token keeps its
\* recorded price, and gets the same price when the market has no record
\* (self.last_poly_prices.get(market_id, {}).get(key, price))
record_price_update(last, token, price) ==
    [has |-> TRUE,
     token_a |-> IF token = "token_a" THEN price
                 ELSE IF last.has THEN last.token_a ELSE price,
     token_b |-> IF token = "token_b" THEN price
                 ELSE IF last.has THEN last.token_b ELSE price]

\* handle_poly_price_update, lines 600-611, for a token of the market
RecordPriceUpdate(token, price) ==
    /\ trader' = [last |-> record_price_update(trader.last, token, price),
                  observed |-> [trader.observed EXCEPT ![token] = @ \cup {price}]]
    /\ UNCHANGED <<books, program_vars, lag, finder, conn, tally, engine, scanned>>

\* _check_lag_opportunity, lines 300-311: the first check of a market with no
\* record stores the two prices get_market_prices reports
RecordBaseline(price_a, price_b) ==
    /\ ~trader.last.has
    /\ trader' = [last |-> [has |-> TRUE, token_a |-> price_a, token_b |-> price_b],
                  observed |-> [token_a |-> trader.observed.token_a \cup {price_a},
                                token_b |-> trader.observed.token_b \cup {price_b}]]
    /\ UNCHANGED <<books, program_vars, lag, finder, conn, tally, engine, scanned>>

InitRecord ==
    /\ books = [t \in {} |-> NewBook]
    /\ ParkedProgram
    /\ lag = NoLag
    /\ finder = NoFinder
    /\ conn = NoConn
    /\ tally = NoTally
    /\ engine = NoEngine
    /\ scanned = NoScan
    /\ trader = [last |-> NoRecord, observed |-> [token_a |-> {}, token_b |-> {}]]

NextRecord ==
    \/ \E token \in RecordTokens, price \in RecordPrices : RecordPriceUpdate(token, price)
    \/ \E price_a \in RecordPrices, price_b \in RecordPrices : RecordBaseline(price_a, price_b)

SpecRecord == InitRecord /\ [][NextRecord]_vars

----------------------------------------------------------------------------
(* Properties *)

\* C1: for every market, over any sequence of scan passes, execute_arb
\* submits the pair of buy orders at most once: after orders were submitted
\* for a market key, no later scan submits orders for that key again.
C1_SubmittedAtMostOnce == \A m \in Markets : order_log[m] <= 1

\* a scan pass met a market that is still mispriced and whose orders had been
\* submitted before, and submitted nothing for it
C1_Witness ==
    /\ dedup_hit
    /\ \E m \in Range(market_pairs) :
           order_log[m] = 1 /\ Mispriced(books, m) /\ strat.market # m

\* C2: the key enters _executed_markets before the first order is submitted,
\* in the same step as the membership check: whenever orders of a market are
\* in flight or have been submitted, the market's key is in the set.
C2_MarkedWhileInFlight ==
    /\ \A m \in Markets : order_log[m] > 0 => market_key(m) \in executed_markets
    /\ strat.pc = "gather" => market_key(strat.market) \in executed_markets

\* the two place_order calls of a market are in flight
C2_Witness ==
    /\ strat.pc = "gather"
    /\ order_log[strat.market] = 1
    /\ market_key(strat.market) \in executed_markets

\* C3: when a place_order call fails, the key of the market is removed from
\* _executed_markets again, so that a later scan can retry the opportunity.
C3_RolledBackOnFailure ==
    (strat.pc = "cooldown" /\ ~strat.filled) =>
        market_key(strat.market) \notin executed_markets

\* C4: when a place_order call fails, the market is not retired: it stays in
\* market_pairs and no replacement request is put on the queue for it.
C4_KeptOnFailure ==
    (strat.pc = "cooldown" /\ ~strat.filled) =>
        /\ strat.market \in Range(market_pairs)
        /\ \A i \in DOMAIN replacement_queue :
               replacement_queue[i] # [market |-> strat.market, reason |-> "trade"]

\* C5: when the consumer handles the request of a traded market and the pool
\* holds an eligible candidate behind the cursor, it admits that candidate:
\* the watch set is one market larger than the trade's removal left it.
C5_TradedMarketReplaced ==
    (repl.pc = "returned" /\ repl.reason = "trade" /\ repl.new # 0) =>
        /\ repl.outcome = "replaced"
        /\ repl.new \in Range(market_pairs)
        /\ Len(market_pairs) = repl.len_before + 1

\* C6: in every reachable state market_pairs holds at most
\* MAX_MARKETS_TO_TRACK markets, whatever the interleaving of trade removals,
\* unfavorable requests and consumer steps.
C6_WatchSetBounded == Len(market_pairs) <= MAX_MARKETS_TO_TRACK

\* a replacement went through at full size while the queue holds one more
\* request for the market it replaced
C6_Witness ==
    /\ repl.pc = "returned" /\ repl.outcome = "replaced"
    /\ Len(market_pairs) = MAX_MARKETS_TO_TRACK
    /\ \E i \in DOMAIN replacement_queue : replacement_queue[i].market = repl.old

\* the consumer is between its search and its return, replacing old by new
Replacing ==
    \/ repl.pc \in {"found", "removed", "added", "unsubscribed"}
    \/ repl.pc = "returned" /\ repl.outcome = "replaced"

C8_NeverReadmitted ==
    /\ retired \cap Range(market_pairs) = {}
    /\ repl.pc = "found" => repl.new = replacement_pool[next_replacement_index]

\* C9: when a request of either kind finds no eligible candidate, the market
\* of the request is not in market_pairs afterwards and the watch set is one
\* market smaller than before the removal event.
C9_ShrinksByOne ==
    (repl.pc = "returned" /\ repl.outcome = "no_candidate") =>
        /\ repl.old \notin Range(market_pairs)
        /\ Len(market_pairs) =
               IF repl.reason = "trade" THEN repl.len_before ELSE repl.len_before - 1

\* C9 as the code has it: when a request finds no eligible candidate, the
\* consumer leaves market_pairs as it found it (a market reported as
\* unfavorable and still watched stays watched, the watch set does not
\* shrink) and takes the market's key out of replaced_markets.
C9_KeepsOriginal ==
    (repl.pc = "returned" /\ repl.outcome = "no_candidate") =>
        /\ Len(market_pairs) = repl.len_before
        /\ (repl.old \in Range(market_pairs)) = repl.was_watched
        /\ market_key(repl.old) \notin replaced_markets

\* an unfavorable market found no candidate and is still watched
C9_Witness ==
    /\ repl.pc = "returned" /\ repl.outcome = "no_candidate"
    /\ repl.reason = "unfavorable"
    /\ repl.old \in Range(market_pairs)

\* C10: a candidate is admitted only if none of its tokens is monitored, its
\* key is not in replaced_markets, and the snapshot fetched for it in this
\* replacement has resting asks for both of its tokens.
C10_AdmittedOnFetchedDepth ==
    repl.pc = "found" =>
        /\ TokensOf(repl.new) \cap monitored_token_ids = {}
        /\ market_key(repl.new) \notin replaced_markets
        /\ repl.fetch = "both"

\* C11: after a replacement has completed, the token list the feed sends in
\* its subscribe message on a connect or reconnect holds both tokens of the
\* new market and no token of the old market.
C11_ResubscribesReplacement ==
    (repl.pc = "returned" /\ repl.outcome = "replaced") =>
        /\ TokensOf(repl.new) \subseteq Range(ws_tokens)
        /\ TokensOf(repl.old) \cap Range(ws_tokens) = {}

LevelsOn(b, side) == IF side = "buy" THEN b.bids ELSE b.asks
NoZeroLevel(b) ==
    \A side \in BookSides : \A p \in DOMAIN LevelsOn(b, side) : LevelsOn(b, side)[p] # 0

\* C12: after any sequence of LocalOrderBook.update calls no level of size 0
\* is in the bid map or the ask map, and an update with size 0 leaves no
\* level at its price.
C12_NoZeroSizeLevel ==
    \A t \in DOMAIN books :
        /\ NoZeroLevel(books[t])
        /\ \A side \in BookSides, p \in BookPrices :
               LET after == book_update(books[t], side, p, 0)
               IN  p \notin DOMAIN LevelsOn(after, side) /\ NoZeroLevel(after)

\* the lowest ask level is gone again while higher ones and a bid rest
C12_Witness ==
    /\ DOMAIN books[BookToken].asks = {PriceMid, PriceHi}
    /\ DOMAIN books[BookToken].bids # {}

\* C13: get_best_ask gives the lowest ask price present with the size at that
\* price, and (None, 0) exactly when no ask is present; get_best_bid likewise
\* with the highest bid; after the best level is removed the result is the
\* best of the levels that remain.
BestIsExtreme(b) ==
    /\ get_best_ask(b) =
           IF DOMAIN b.asks = {} THEN [none |-> TRUE, price |-> 0, size |-> 0]
           ELSE [none |-> FALSE, price |-> SetMin(DOMAIN b.asks),
                 size |-> b.asks[SetMin(DOMAIN b.asks)]]
    /\ get_best_bid(b) =
           IF DOMAIN b.bids = {} THEN [none |-> TRUE, price |-> 0, size |-> 0]
           ELSE [none |-> FALSE, price |-> SetMax(DOMAIN b.bids),
                 size |-> b.bids[SetMax(DOMAIN b.bids)]]
C13_BestOfPresentLevels ==
    \A t \in DOMAIN books :
        /\ BestIsExtreme(books[t])
        /\ ~get_best_ask(books[t]).none =>
               LET gone == get_best_ask(books[t]).price
                   after == book_update(books[t], "sell", gone, 0)
               IN  BestIsExtreme(after) /\ get_best_ask(after).price # gone
        /\ ~get_best_bid(books[t]).none =>
               LET gone == get_best_bid(books[t]).price
                   after == book_update(books[t], "buy", gone, 0)
               IN  BestIsExtreme(after) /\ get_best_bid(after).price # gone

\* several asks and several bids rest, the best ask is not the lowest price
\* the feed quotes
C13_Witness ==
    /\ Cardinality(DOMAIN books[BookToken].asks) >= 2
    /\ Cardinality(DOMAIN books[BookToken].bids) >= 2
    /\ get_best_ask(books[BookToken]).price = PriceMid

\* C14: applying the same delta (side, price, size) twice in a row leaves the
\* book as applying it once does, for a non-zero size and for size 0.
C14_UpdateIdempotent ==
    \A t \in DOMAIN books :
        \A side \in BookSides, p \in BookPrices, z \in BookSizes :
            book_update(book_update(books[t], side, p, z), side, p, z)
                = book_update(books[t], side, p, z)

\* a level rests with a size that a delta of another size would replace
C14_Witness ==
    /\ PriceLo \in DOMAIN books[BookToken].asks
    /\ books[BookToken].asks[PriceLo] = SizeSmall
    /\ PriceHi \in DOMAIN books[BookToken].bids

\* the levels a message lists for one side: the last entry of a price counts,
\* an entry of size 0 lists no level
RECURSIVE ListedLevels(_)
ListedLevels(levels) ==
    IF levels = <<>> THEN EmptyLevels
    ELSE LET rest == ListedLevels(SubSeq(levels, 1, Len(levels) - 1))
             last == levels[Len(levels)]
         IN  IF last.size = 0
             THEN [p \in DOMAIN rest \ {last.price} |-> rest[p]]
             ELSE [p \in DOMAIN rest \cup {last.price} |->
                      IF p = last.price THEN last.size ELSE rest[p]]

\* C15: after the feed has processed a snapshot message for a token, the
\* token's book holds exactly the levels of the snapshot: a level that was
\* present before and is not in the snapshot is gone.
C15_SnapshotReplacesBook ==
    \A data \in BookMessages :
        data.asset_id \in DOMAIN books =>
            LET after == process_update(books, data)[data.asset_id]
            IN  /\ after.asks = ListedLevels(data.asks)
                /\ after.bids = ListedLevels(data.bids)

\* execute_arb was entered for market m: it returned early or placed the orders
Started(m) ==
    rejections[m] # "none" \/ (strat.pc = "gather" /\ strat.market = m)
HasBestAsk(bk, t) == t \in DOMAIN bk /\ ~get_best_ask(bk[t]).none
BothQuoted(bk, m) == HasBestAsk(bk, token_a(m)) /\ HasBestAsk(bk, token_b(m))
CostBelowThreshold(bk, m) ==
    get_best_ask(bk[token_a(m)]).price + get_best_ask(bk[token_b(m)]).price
        < 1000 - MIN_PROFIT_SPREAD
NonZeroPrices(bk, m) ==
    get_best_ask(bk[token_a(m)]).price # 0 /\ get_best_ask(bk[token_b(m)]).price # 0

\* C16 as stated: scan_market enters execute_arb for a watched market if and
\* only if the market's key is not in the executed set, both tokens have a
\* book with a best ask, and askA + askB < 1 - MIN_PROFIT_SPREAD.
C16_ExecutesIffBelowThreshold ==
    \A m \in Range(market_pairs) :
        ArbFound(books, executed_markets, m) <=>
            /\ market_key(m) \notin executed_markets
            /\ BothQuoted(books, m)
            /\ CostBelowThreshold(books, m)

\* C16 amended: scan_market enters execute_arb if and only if the key is not in
\* the executed set, both tokens have a book with a best ask at a non-zero
\* price, and askA + askB < 1 - MIN_PROFIT_SPREAD; a scan pass enters
\* execute_arb for exactly the markets scan_market decides for, and a pass over
\* a market with a missing best ask (or one at price 0) changes no state.
C16_ExecutesIffNonZeroBelowThreshold ==
    /\ [](\A m \in Range(market_pairs) :
            ArbFound(books, executed_markets, m) <=>
                /\ market_key(m) \notin executed_markets
                /\ BothQuoted(books, m)
                /\ NonZeroPrices(books, m)
                /\ CostBelowThreshold(books, m))
    /\ [][ScanPass =>
            \A m \in Range(market_pairs) :
                /\ Started(m)' <=> ArbFound(books, executed_markets, m)
                /\ (~BothQuoted(books, m) \/ ~NonZeroPrices(books, m)) =>
                       UNCHANGED <<books, program_vars, lag, trader, finder,
                                   conn, tally, engine>>]_vars

\* the orders of a pair quoted just below the threshold are in flight
C16_Witness ==
    /\ strat.pc = "gather" /\ strat.market = ArbMarket
    /\ get_best_ask(books[token_a(ArbMarket)]).price = PriceEdge
    /\ get_best_ask(books[token_b(ArbMarket)]).price = PriceEdge

\* C17: the size of the submitted orders is at most the size resting at either
\* best ask and at most MAX_TRADE_SIZE_USDC / totalCost, so size x totalCost
\* is at most MAX_TRADE_SIZE_USDC; an opportunity whose size is below the
\* minimum size (2) submits no order.
C17_SizeWithinCaps ==
    /\ strat.pc = "gather" =>
           LET m == strat.market
               a == get_best_ask(books[token_a(m)])
               b == get_best_ask(books[token_b(m)])
           IN  \A i \in DOMAIN strat.orders :
                   /\ strat.orders[i].size <= 100 * a.size
                   /\ strat.orders[i].size <= 100 * b.size
                   /\ strat.orders[i].size * (a.price + b.price)
                          <= MAX_TRADE_SIZE_USDC * 100000
    /\ \A m \in Markets : rejections[m] = "size" => order_log[m] = 0

\* C18: orders are in flight only if ((1 - totalCost) x size - takerFee -
\* gasCost) / size >= MIN_NET_PROFIT_SPREAD, with takerFee 0 (market type
\* "standard") and gasCost TOTAL_GAS_COST (gasless trading off); a rejected
\* opportunity has no order and no ledger row, its market is still watched
\* and its key is not in the executed set.
C18_NetProfitGate ==
    /\ strat.pc = "gather" =>
           LET o == strat.orders
               size == o[1].size
               total_cost == o[1].price + o[Len(o)].price
           IN  (1000 - total_cost) * size - 0 - TOTAL_GAS_COST
                   >= MIN_NET_PROFIT_SPREAD * size
    /\ \A m \in Markets :
           rejections[m] # "none" =>
               /\ order_log[m] = 0
               /\ arb_ledger[m] = 0
               /\ m \in Range(market_pairs)
               /\ market_key(m) \notin executed_markets

\* an opportunity was rejected because the gas eats the profit
C18_Witness ==
    /\ rejections[ArbMarket] = "net"
    /\ strat.pc = "sleep"
    /\ get_best_ask(books[token_a(ArbMarket)]).size = SizeUnder

C20_OutcomeTruthTable ==
    lag.bought # <<>> =>
        LET bearish == lag.title \cap bearish_keywords # {}
            first == (~bearish /\ lag.move = "up") \/ (bearish /\ lag.move = "down")
            second == (~bearish /\ lag.move = "down") \/ (bearish /\ lag.move = "up")
        IN  /\ first => /\ lag.bought[1] = token_a(LagMarket)
                        /\ lag.bought[2] = "YES"
                        /\ lag.bought[3] = lag.price_a
            /\ second => /\ lag.bought[1] = token_b(LagMarket)
                         /\ lag.bought[2] = "NO"
                         /\ lag.bought[3] = lag.price_b
            /\ first \/ second

\* a title with a bearish and a bullish keyword, an up move: the second
\* outcome was chosen, at a price that differs from the first outcome's
C20_Witness ==
    /\ {"below", "above"} \subseteq lag.title
    /\ lag.move = "up"
    /\ lag.price_a # lag.price_b
    /\ lag.bought # <<>>
    /\ lag.bought[1] = token_b(LagMarket)

\* the three conditions of the lag check, on what the check looked at
LagConditions(seen) ==
    /\ Abs(seen.mv) > DELTA_THRESHOLD_PERCENT
    /\ IF seen.last_price > 0
       THEN Abs(seen.ask - seen.last_price) * 100000 < Abs(seen.mv) * seen.last_price
       ELSE TRUE
    /\ seen.since > EXPECTED_LAG_MIN

\* C21 as stated: the check declares a lag opportunity if and only if a price
\* is recorded for the market, the absolute leader move exceeds
\* DELTA_THRESHOLD_PERCENT, the change of the chosen outcome's best ask against
\* the recorded price is below 10% of the absolute move, and the time since
\* the record exceeds EXPECTED_LAG_MIN; with no recorded price it stores a
\* baseline and declares nothing.
C21_LagDeclaredIff ==
    trader.seen.checked =>
        /\ trader.outcome = "declared" <=>
               (trader.seen.has_last /\ LagConditions(trader.seen))
        /\ ~trader.seen.has_last => trader.outcome = "baseline"

\* C21 amended: the same for a market that has no open position, an acceptable
\* spread and a best ask on both tokens; a market with an open position, an
\* unacceptable spread or a missing best ask gets no declaration and no
\* baseline; a recorded price of 0 counts as no change.
C21_LagDeclaredIffEligible ==
    trader.seen.checked =>
        LET seen == trader.seen
            eligible == ~seen.had_position /\ seen.spread_ok /\ seen.ask # 0
        IN  /\ trader.outcome = "declared" <=>
                   (eligible /\ seen.has_last /\ LagConditions(seen))
            /\ trader.outcome = "baseline" <=> (eligible /\ ~seen.has_last)
            /\ trader.outcome = "baseline" =>
                   /\ trader.has_last /\ trader.last_price = seen.ask
                   /\ trader.last_ts = trader.now
                   /\ ~trader.positions["m"].open
            /\ ~eligible =>
                   /\ trader.has_last = seen.has_last
                   /\ trader.last_price = seen.last_price
                   /\ trader.positions["m"].open = seen.had_position

\* a lag was declared on a move just large enough for a one-tick change of
\* the follower, 3 s after its last record
C21_Witness ==
    /\ trader.seen.checked /\ trader.outcome = "declared"
    /\ trader.seen.mv = -MoveOverTickPass
    /\ trader.seen.ask = AskTick /\ trader.seen.last_price = AskBase
    /\ trader.positions["m"].open

\* C22: a position is closed once its hold duration EXIT_HOLD_SECONDS has
\* elapsed since its entry, whatever its unrealized profit: no position is
\* open longer than EXIT_HOLD_SECONDS.
C22_ClosedAfterHold ==
    \A id \in PositionIds :
        trader.positions[id].open =>
            trader.now - trader.positions[id].entry_time <= EXIT_HOLD_SECONDS

\* C23: a position that is closed has been held for the minimum hold time
\* (10 s), and when an exit timer closes it, it is the timer started for that
\* position.
C23_HeldMinimumByOwnTimer ==
    trader.closed.id # "none" =>
        /\ trader.closed.hold >= EARLY_EXIT_HOLD
        /\ trader.closed.timer_for # -1 =>
               trader.closed.timer_for = trader.closed.held_by

\* C24: a position on a market that had an exit is opened no earlier than
\* COOLDOWN_SECONDS after that exit.
C24_NoEntryDuringCooldown ==
    (/\ trader.positions["m"].open
     /\ trader.last_exit >= 0
     /\ trader.positions["m"].entry_time >= trader.last_exit) =>
        trader.positions["m"].entry_time >= trader.last_exit + COOLDOWN_SECONDS


\* C25: for every watched market, after each table the count of the market
\* equals its run of consecutive most recent rows with the status
\* "Expensive" (one more on such a row, 0 after any other row), and the table
\* asks for the market's replacement exactly when that run exceeds the limit.
C25_CountIsExpensiveRun ==
    \A m \in Range(market_pairs) :
        /\ expensive_counts[m] = IF tally[m].asked THEN 0 ELSE tally[m].bad
        /\ tally[m].asked <=> tally[m].bad > EXPENSIVE_LIMIT


\* what the claim asks of a catalog entry
PassesEveryCheck(m) ==
    /\ m.active /\ ~m.closed
    /\ m.liquidity >= MIN_LIQUIDITY_USDC
    /\ m.end_kind = "date" /\ m.end_in >= MIN_HOURS_UNTIL_END
    /\ m.outcomes = 2 /\ m.clob_ids = 2
    /\ m.price_a + m.price_b >= TOTAL_PRICE_MIN
    /\ m.price_a + m.price_b <= TOTAL_PRICE_MAX
    /\ m.volume >= MIN_VOLUME_USDC

\* C26: every market get_top_markets returns (in the top list and in the
\* scored list) comes from a catalog entry that is active and not closed,
\* has liquidity and volume at or above their floors, ends at least the
\* minimum horizon in the future, has 2 outcomes and 2 token ids and a combined
\* outcome price within [0.90, 1.10]; an entry failing one of these is not kept.
C26_OnlyValidMarketsReturned ==
    /\ \A i \in DOMAIN finder.valid : PassesEveryCheck(finder.valid[i].entry)
    /\ \A i \in DOMAIN finder.scored : PassesEveryCheck(finder.scored[i].entry)
    /\ \A i \in DOMAIN finder.top : PassesEveryCheck(finder.top[i].entry)
    /\ Range(finder.top) \subseteq Range(finder.scored)

\* the scan skipped an entry at each of the six validations, kept others,
\* and returned the best of them
C26_Witness ==
    /\ finder.pc = "done"
    /\ finder.skipped = 1 .. 6
    /\ Len(finder.scored) = MARKETS_TO_SCAN
    /\ Len(finder.top) = FindLimit

\* the two markets of a scoring differ in nothing but the named input
SameButLiquidity == finder.other = [finder.market EXCEPT !.liquidity = finder.other.liquidity]
SameButVolume == finder.other = [finder.market EXCEPT !.volume = finder.other.volume]
SameButPrice == finder.other = [finder.market EXCEPT !.price_b = finder.other.price_b]
SameButTime ==
    finder.other = [finder.market EXCEPT !.hours_until_end = finder.other.hours_until_end]
PartsNotBelow ==
    /\ finder.other_parts.liquidity >= finder.parts.liquidity
    /\ finder.other_parts.volume >= finder.parts.volume
    /\ finder.other_parts.price >= finder.parts.price
    /\ finder.other_parts.time >= finder.parts.time
PriceDiff(market) == Abs(1000 - (market.price_a + market.price_b))

\* C27: with the other inputs held fixed the score does not fall when the
\* liquidity grows, nor when the volume grows; and a market none of whose
\* component scores is lower has no lower total.
C27_ScoreMonotone ==
    finder.pc = "rated" =>
        /\ (SameButLiquidity /\ finder.other.liquidity >= finder.market.liquidity)
               => finder.other_score >= finder.score
        /\ (SameButVolume /\ finder.other.volume >= finder.market.volume)
               => finder.other_score >= finder.score
        /\ PartsNotBelow => finder.other_score >= finder.score

\* a market scored next to one with more liquidity, past the cap, and no
\* other difference: the second score is not lower, and equal past the cap
C27_Witness ==
    /\ finder.pc = "rated"
    /\ SameButLiquidity
    /\ finder.market.liquidity = LIQUIDITY_CAP
    /\ finder.other.liquidity > LIQUIDITY_CAP
    /\ finder.other_score = finder.score

\* C28: the score of a valid market lies in [0, 100] and is the sum of a
\* liquidity component in [0, 40], a volume component in [0, 30], a price
\* component with one of four values that does not rise as |1 - price_a -
\* price_b| grows, and a time component in [0, 10] that is 10 exactly from 24
\* to 168 hours and does not rise moving away from that window on either side.
C28_ScoreRanges ==
    finder.pc = "rated" =>
        /\ finder.score >= 0 /\ finder.score <= 100 * 5000
        /\ finder.score = finder.parts.liquidity + finder.parts.volume
                          + finder.parts.price + finder.parts.time
        /\ finder.parts.liquidity >= 0 /\ finder.parts.liquidity <= 40 * 5000
        /\ finder.parts.volume >= 0 /\ finder.parts.volume <= 30 * 5000
        /\ finder.parts.price \in {0, 10 * 5000, 15 * 5000, 20 * 5000}
        /\ (SameButPrice /\ PriceDiff(finder.other) >= PriceDiff(finder.market))
               => finder.other_parts.price <= finder.parts.price
        /\ finder.parts.time >= 0 /\ finder.parts.time <= 10 * 5000
        /\ finder.parts.time = 10 * 5000
               <=> (/\ finder.market.hours_until_end >= Hours(24)
                    /\ finder.market.hours_until_end <= Hours(168))
        /\ (/\ SameButTime
            /\ \/ /\ finder.other.hours_until_end <= finder.market.hours_until_end
                  /\ finder.market.hours_until_end <= Hours(24)
               \/ /\ finder.other.hours_until_end >= finder.market.hours_until_end
                  /\ finder.market.hours_until_end >= Hours(168))
               => finder.other_parts.time <= finder.parts.time

\* a market with the full score of 100, scored next to the same market
\* ending more than 30 days away, whose time component is lower
C28_Witness ==
    /\ finder.pc = "rated"
    /\ finder.score = 100 * 5000
    /\ SameButTime
    /\ finder.other.hours_until_end > Hours(720)
    /\ finder.other_parts.time < finder.parts.time

\* a value that is no number, an entry with such a price or size, an item
\* that is no object or holds such an entry
Unreadable(x) == x.text = "word"
BadEntry(entry) == Unreadable(entry.price) \/ Unreadable(entry.size)
BadItem(item) ==
    item.kind # "object" \/ \E i \in DOMAIN item.asks : BadEntry(item.asks[i])
CannotBeDecoded(frame) ==
    \/ frame.body \in {"invalid", "scalar"}
    \/ \E i \in DOMAIN frame.items : BadItem(frame.items[i])
\* the levels of a frame that can be read: the entries without an unreadable
\* value, of the items that are objects (a missing value reads as 0)
Readable(x) == IF x.text = "number" THEN x.value ELSE 0
RECURSIVE GoodLevels(_)
GoodLevels(entries) ==
    IF entries = <<>> THEN <<>>
    ELSE (IF BadEntry(Head(entries)) THEN <<>>
          ELSE <<Level(Readable(Head(entries).price), Readable(Head(entries).size))>>)
         \o GoodLevels(Tail(entries))
RECURSIVE GoodLevelsOf(_)
GoodLevelsOf(items) ==
    IF items = <<>> THEN <<>>
    ELSE (IF Head(items).kind = "object" THEN GoodLevels(Head(items).asks) ELSE <<>>)
         \o GoodLevelsOf(Tail(items))

C30_WaitsBeforeReconnect ==
    /\ conn.attempt_after # "none" => conn.attempt_waited = RECONNECT_DELAY
    /\ conn.pc = "listen" => conn.subscribed = conn.session
    /\ conn.pc \in {"connect", "subscribe", "listen", "sleep"}

\* C31: whenever a connection has had no message for longer than the
\* staleness threshold, the task eventually leaves that connection's listen
\* loop (to reconnect), whether or not another message arrives on it.
C31_StaleConnectionDropped ==
    (conn.pc = "listen" /\ conn.quiet > STALE_AFTER) ~> (conn.pc # "listen")

\* C32: every step that changes the membership of the watch set (the list of
\* markets, the monitored tokens, the subscription list, the cursor into the
\* candidate pool) is a step of the replacement-queue consumer.
C32_OnlyConsumerChangesWatchSet ==
    [][(\/ market_pairs' # market_pairs
        \/ monitored_token_ids' # monitored_token_ids
        \/ token_ids_to_subscribe' # token_ids_to_subscribe
        \/ next_replacement_index' # next_replacement_index) => repl' # repl]_vars

\* the tokens whose book a step creates or changes
BooksWritten ==
    {t \in DOMAIN books' : t \notin DOMAIN books \/ books'[t] # books[t]}

\* C33 as stated: once the tasks run, a step that changes an order book is a
\* step of the feed task: neither the strategy task nor the consumer moves.
C33_OnlyFeedWritesBooks ==
    [][books' # books => (strat' = strat /\ repl' = repl)]_vars

\* C33 as the code has it: the strategy and the display never write a book;
\* besides the feed task the queue consumer writes books, when its search
\* creates the books of a candidate and loads the candidate's fetched asks,
\* and only books of tokens that are not monitored.
C33_FeedAndCandidateLoadWriteBooks ==
    [][books' # books =>
          /\ strat' = strat
          /\ repl' # repl => /\ repl.pc = "idle"
                             /\ BooksWritten \cap monitored_token_ids = {}
                             /\ BooksWritten \subseteq UNION {TokensOf(m) : m \in Untried}]_vars

\* the consumer's search has found a candidate after loading fetched asks
\* into the candidate's books
C33_Witness ==
    /\ repl.pc = "found"
    /\ repl.fetch = "both"
    /\ HasBothAsks(books, repl.new)
    /\ TokensOf(repl.new) \cap monitored_token_ids = {}

\* C34: a check that opens a position bought at an ask from which a sale,
\* after the follower has moved by the pass-through of the lag test (10% of
\* the leader's percentage move, in percent), gains at least
\* MIN_EXIT_PROFIT_PCT percent.
C34_TradeOnlyIfExitProfit ==
    (/\ trader.seen.checked
     /\ trader.outcome = "declared"
     /\ ~trader.seen.had_position
     /\ trader.positions["m"].open)
        => trader.seen.ask * Abs(trader.seen.mv) * 100
              >= MIN_EXIT_PROFIT_PCT * trader.seen.ask * 100000

\* C35: in every reachable state the follower market has at most one open
\* position.
C35_AtMostOnePositionPerMarket ==
    Cardinality({i \in PositionIds : trader.positions[i].open}) <= 1

\* the calls of place_order made so far
OrderCalls == {engine.calls[i] : i \in 1 .. Len(engine.calls)}

\* a call never raises; in live mode it writes no ledger row and returns the
\* venue's order id exactly when the response reports success, and the
\* failure value otherwise
NeverRaisesAndLiveResult(c) ==
    /\ ~c.raised
    /\ engine.mode = "live" =>
          /\ c.rows = 0
          /\ c.venue_calls = 1
          /\ (c.venue.present /\ c.venue.success) => c.value = c.venue.orderID
          /\ ~(c.venue.present /\ c.venue.success) => c.value = NoOrderId
          /\ c.value # NoOrderId <=> (~c.venue.raises /\ c.venue.present /\ c.venue.success)

\* C36 as stated: place_order never raises; simulated, it calls no venue API,
\* appends exactly one ledger row and returns a synthetic id; live, it returns
\* the venue's id iff the response reports success and a failure value
\* otherwise, also when the venue call raises.
C36_PlaceOrderContract ==
    /\ \A c \in OrderCalls :
          /\ NeverRaisesAndLiveResult(c)
          /\ engine.mode = "simulated" =>
                c.venue_calls = 0 /\ c.rows = 1 /\ c.value = SimOrderId
    /\ engine.mode = "simulated" =>
          engine.venue_calls = 0 /\ engine.rows = Len(engine.calls)

\* C36 as the code has it: as stated, except that a simulated call whose
\* ledger write fails appends no row and still returns the synthetic id.
C36_PlaceOrderContractUnlessWriteFails ==
    /\ \A c \in OrderCalls :
          /\ NeverRaisesAndLiveResult(c)
          /\ engine.mode = "simulated" =>
                /\ c.venue_calls = 0
                /\ c.value = SimOrderId
                /\ c.rows = IF c.write_ok THEN 1 ELSE 0
    /\ engine.mode = "simulated" =>
          /\ engine.venue_calls = 0
          /\ engine.rows = Cardinality({i \in 1 .. Len(engine.calls) : engine.calls[i].write_ok})
    /\ engine.mode = "live" => engine.rows = 0 /\ engine.venue_calls = Len(engine.calls)

\* simulated calls have met a ledger write that failed and one that went
\* through: both returned the synthetic id, one row was appended
C36_Witness ==
    /\ engine.mode = "simulated"
    /\ \E c \in OrderCalls : ~c.write_ok /\ c.rows = 0 /\ c.value = SimOrderId
    /\ \E c \in OrderCalls : c.write_ok /\ c.rows = 1 /\ c.value = SimOrderId
    /\ engine.rows = 1

\* the feed messages for a token that has no book
StrayMessages == {data \in BookMessages : data.asset_id \notin DOMAIN books}

C38_TokensMatchWatchSet ==
    repl.pc \in {"idle", "returned"} =>
        /\ monitored_token_ids = UNION {TokensOf(m) : m \in Range(market_pairs)}
        /\ Range(token_ids_to_subscribe) = UNION {TokensOf(m) : m \in Range(market_pairs)}
        /\ Len(token_ids_to_subscribe) = 2 * Len(market_pairs)

\* a traded market has been removed and, later, a replacement has gone
\* through: the watch set is one market short and holds the new market
C38_Witness ==
    /\ repl.pc = "returned" /\ repl.outcome = "replaced"
    /\ repl.new \in Range(market_pairs)
    /\ \E m \in Markets : arb_ledger[m] > 0 /\ m \notin Range(market_pairs)
    /\ TokensOf(repl.new) \subseteq monitored_token_ids

\* C39: when a pass of the scan loop has ended, every market that was in the
\* watch set from the start of the pass to its end has been handed to
\* scan_market in that pass.
C39_PassEvaluatesEveryStayingMarket ==
    strat.pc = "sleep" => scanned.whole \subseteq scanned.seen

\* C40: the price recorded for a token of the market is a price that was
\* observed for that token.
C40_RecordedPriceObservedForToken ==
    trader.last.has =>
        /\ trader.last.token_a \in trader.observed.token_a
        /\ trader.last.token_b \in trader.observed.token_b


====
